---- MODULE Spec2Model ----
(***************************************************************************)
(* LSG core API: point ledger, redemption, manual adjustment and the       *)
(* authorization gates, modelled from src/app/api/games.py,                *)
(* src/app/api/points.py and src/app/security.py.                          *)
(*                                                                         *)
(* The database is modelled as its committed tables.  A request handler    *)
(* that issues several statements inside one transaction is modelled as    *)
(* one step per statement: its uncommitted writes are kept in the          *)
(* request's own record (tx_ledger, tx_event) and reach the tables only at *)
(* commit; a rollback drops them.                                          *)
(***************************************************************************)
EXTENDS Integers, Sequences, FiniteSets, TLC

(* ------------------------------ bounds --------------------------------- *)

\* largest amount a request may carry
MaxAmount == 2
\* smallest amount a request may carry (a request body may hold any integer)
MinAmount == 0 - 1

Players == {1, 2}
Games == {1, 2}
Dimensions == {1}
MmvIds == {1, 2, 3}
Amounts == MinAmount..MaxAmount
\* values uuid4() may return
Tokens == {1}
\* auto-increment ids of points_ledger the model hands out
LedgerIds == {1, 2}
\* request slots of the sequential specification
Reqs == {1}

(* ------------------------- optional values ----------------------------- *)

\* Python None / SQL NULL, and a present value
None == << >>
Some(v) == << v >>

(* ------------------------------ state ---------------------------------- *)

VARIABLES
    points_ledger,                  \* committed rows of points_ledger
    redemption_event,               \* committed rows of redemption_event
    modifiable_mechanic_videogames, \* mmv id -> None | Some(id_videogame)
    next_ledger_id,                 \* AUTO_INCREMENT counter of points_ledger
    player_videogame,               \* committed rows of player_videogame
    lsg_game_session,               \* committed rows of lsg_game_session
    req,                            \* per request slot: handler position, inputs, locals, response
    AUTH_DISABLED,                  \* security.py: read once from the environment
    AUTH_OPEN_ALL,                  \* security.py: read once from the environment
    http,                           \* the request passing the authorization dependencies
    attributes,                     \* committed rows of attributes
    subattributes,                  \* committed rows of subattributes
    point_dimension,                \* committed rows of point_dimension
    next_point_dimension_id,        \* AUTO_INCREMENT counter of point_dimension
    videogame,                      \* committed rows of videogame
    next_videogame_id,              \* AUTO_INCREMENT counter of videogame
    modifiable_mechanic,            \* committed rows of modifiable_mechanic
    mmv_columns,                    \* mmv id -> the columns id_modifiable_mechanic and options
    admin_updates,                  \* update requests served on the four entities below
    adm,                            \* the request being served by a catalogue route
    next_player_videogame_id,       \* AUTO_INCREMENT counter of player_videogame
    next_session_id,                \* AUTO_INCREMENT counter of lsg_game_session
    sess,                           \* the session request being served
    sess_peer,                      \* the session request a second worker is serving
    v_player_attribute_balance,     \* rows of the view v_player_attribute_balance
    raising,                        \* the consistency checks whose query raises
    ledger_columns,                 \* ledger id -> the columns occurred_at and sensor_ingest_event_id
    sensor_ingest_event,            \* committed rows of sensor_ingest_event
    players_columns,                \* player id -> the columns name and email of players
    RESEARCH_PSEUDONYM_SALT,        \* research_export.py: read once from the environment
    online_sensor,                  \* committed rows of online_sensor
    sensor_endpoint,                \* committed rows of sensor_endpoint
    player_online_sensor,           \* committed rows of player_online_sensor
    players_sensor_endpoint,        \* committed rows of players_sensor_endpoint
    report                          \* the read-only request being served by a reporting route

pointsVars == << points_ledger, redemption_event, modifiable_mechanic_videogames,
                 next_ledger_id, player_videogame, lsg_game_session, req >>
authVars == << AUTH_DISABLED, AUTH_OPEN_ALL, http >>
catalogVars == << attributes, subattributes, point_dimension, next_point_dimension_id,
                  videogame, next_videogame_id, modifiable_mechanic, mmv_columns,
                  admin_updates, adm >>
sessionVars == << next_player_videogame_id, next_session_id, sess, sess_peer >>
dbVars == << v_player_attribute_balance, raising >>
reportTables == << ledger_columns, sensor_ingest_event, players_columns,
                   RESEARCH_PSEUDONYM_SALT, online_sensor, sensor_endpoint,
                   player_online_sensor, players_sensor_endpoint >>
reportVars == << reportTables, report >>
vars == << pointsVars, authVars, catalogVars, sessionVars, dbVars, reportVars >>

(* --------------------------- pure helpers ------------------------------ *)

RECURSIVE SumSigned(_)
\* SUM(CASE WHEN direction='CREDIT' THEN amount WHEN 'DEBIT' THEN -amount ELSE 0 END)
SumSigned(rows) ==
    IF rows = {} THEN 0
    ELSE LET row == CHOOSE x \in rows : TRUE
             term == CASE row.direction = "CREDIT" -> row.amount
                       [] row.direction = "DEBIT"  -> 0 - row.amount
                       [] OTHER                    -> 0
         IN  term + SumSigned(rows \ {row})

\* variant: the balance is read across games (no id_videogame filter)
BalanceRowsCrossGame(ledger, player_id, game_id, point_dimension_id) ==
    { row \in ledger : /\ row.id_players = player_id
                       /\ row.id_point_dimension = point_dimension_id }

\* The rows the balance query selects: WHERE id_players, id_videogame, id_point_dimension
BalanceRows(ledger, player_id, game_id, point_dimension_id) ==
    { row \in ledger : /\ row.id_players = player_id
                       /\ row.id_videogame = Some(game_id)
                       /\ row.id_point_dimension = point_dimension_id }

\* _get_player_game_dimension_balance: COALESCE(SUM(...), 0) over the selected rows
GetPlayerGameDimensionBalance(ledger, player_id, game_id, point_dimension_id) ==
    SumSigned(BalanceRows(ledger, player_id, game_id, point_dimension_id))

\* variant: the SELECT lacks "AND id_videogame = :game_id"
MmvExistsAnyGame(mmv, game_id, mmv_id) ==
    /\ mmv_id \in DOMAIN mmv
    /\ mmv[mmv_id] # None

\* _assert_mmv_exists_for_game: TRUE when the SELECT finds a row (no 404 raised)
MmvExistsForGame(mmv, game_id, mmv_id) ==
    /\ mmv_id \in DOMAIN mmv
    /\ mmv[mmv_id] = Some(game_id)

(* ----------------------------- requests -------------------------------- *)

NoPayload == [modifiable_mechanic_videogame_id |-> None, point_dimension_id |-> None,
              amount |-> None, direction |-> None, videogame_id |-> None]

NoResp == [status |-> 0, code |-> "", current_balance |-> None, required_amount |-> None,
           resulting_balance |-> None, can_redeem |-> None, points_ledger_id |-> None,
           source_ref |-> None]

IdleReq == [pc |-> "idle", op |-> "", game_id |-> None, player_id |-> None,
            payload |-> NoPayload, current_balance |-> None, pl_id |-> None,
            source_ref |-> None, tx_ledger |-> {}, tx_event |-> {}, resp |-> NoResp]

\* a slot can take a new request when it is idle
Free(r) == req[r].pc = "idle"

RedeemPayload(mmv_id, point_dimension_id, amount) ==
    [NoPayload EXCEPT !.modifiable_mechanic_videogame_id = Some(mmv_id),
                      !.point_dimension_id = Some(point_dimension_id),
                      !.amount = Some(amount)]

MmvNotFound == [NoResp EXCEPT !.status = 404,
                              !.code = "MODIFIABLE_MECHANIC_VIDEOGAME_NOT_FOUND"]

(* ------------------------------ Init ----------------------------------- *)

\* contents of the session tables the service may start on: none, or one association
\* of player 1 with game 1 and one open session of it
InitialSessionTables ==
    { [pvg |-> {}, sessions |-> {}],
      [pvg |-> {[id_player_videogame |-> 1, id_players |-> 1, id_videogame |-> 1,
                 lsg_enabled |-> TRUE, first_seen |-> 1]},
       sessions |-> {[id_lsg_game_session |-> 1, id_player_videogame |-> 1,
                      started_at |-> 1, ended_at |-> None]}] }

\* an empty database with the mechanic configurations 1 (of game 1) and 2 (of game 2)
InitPointsIdle ==
    /\ points_ledger = {}
    /\ redemption_event = {}
    /\ modifiable_mechanic_videogames = [m \in MmvIds |-> IF m \in Games THEN Some(m) ELSE None]
    /\ next_ledger_id = 1
    /\ player_videogame = {}
    /\ lsg_game_session = {}
    /\ req = [r \in Reqs |-> IdleReq]

InitPoints ==
    /\ points_ledger = {}
    /\ redemption_event = {}
    /\ modifiable_mechanic_videogames = [m \in MmvIds |-> IF m \in Games THEN Some(m) ELSE None]
    /\ next_ledger_id = 1
    /\ \E t \in InitialSessionTables :
         /\ player_videogame = t.pvg
         /\ lsg_game_session = t.sessions
    /\ req = [r \in Reqs |-> IdleReq]

(* --------------------------- preview_redeem ---------------------------- *)

\* variant: a balance equal to the amount is reported as not enough
PreviewOutcomeStrictlyMore(ledger, mmv, game_id, player_id, mmv_id, point_dimension_id, amount) ==
    LET start == [IdleReq EXCEPT !.pc = "done", !.op = "preview",
                                 !.game_id = Some(game_id), !.player_id = Some(player_id),
                                 !.payload = RedeemPayload(mmv_id, point_dimension_id, amount)]
        current_balance == GetPlayerGameDimensionBalance(ledger, player_id, game_id,
                                                          point_dimension_id)
        would_be_enough == current_balance > amount
        new_balance == IF would_be_enough THEN current_balance - amount ELSE current_balance
    IN  IF ~MmvExistsForGame(mmv, game_id, mmv_id)
        THEN [start EXCEPT !.resp = MmvNotFound]
        ELSE [start EXCEPT !.current_balance = Some(current_balance),
                           !.resp = [NoResp EXCEPT
                                       !.status = 200,
                                       !.code = "preview",
                                       !.can_redeem = Some(would_be_enough),
                                       !.current_balance = Some(current_balance),
                                       !.required_amount = Some(amount),
                                       !.resulting_balance = Some(new_balance)]]

\* the slot after preview_redeem_mechanic has run: the 404 or the preview body
PreviewOutcome(ledger, mmv, game_id, player_id, mmv_id, point_dimension_id, amount) ==
    LET start == [IdleReq EXCEPT !.pc = "done", !.op = "preview",
                                 !.game_id = Some(game_id), !.player_id = Some(player_id),
                                 !.payload = RedeemPayload(mmv_id, point_dimension_id, amount)]
        current_balance == GetPlayerGameDimensionBalance(ledger, player_id, game_id,
                                                          point_dimension_id)
        would_be_enough == current_balance >= amount
        new_balance == IF would_be_enough THEN current_balance - amount ELSE current_balance
    IN  IF ~MmvExistsForGame(mmv, game_id, mmv_id)
        THEN [start EXCEPT !.resp = MmvNotFound]
        ELSE [start EXCEPT !.current_balance = Some(current_balance),
                           !.resp = [NoResp EXCEPT
                                       !.status = 200,
                                       !.code = "preview",
                                       !.can_redeem = Some(would_be_enough),
                                       !.current_balance = Some(current_balance),
                                       !.required_amount = Some(amount),
                                       !.resulting_balance = Some(new_balance)]]

\* variant: a coverable preview also books the debit
preview_redeem_mechanic_books_debit(r, game_id, player_id, mmv_id, point_dimension_id, amount) ==
    /\ Free(r)
    /\ req' = [req EXCEPT ![r] = PreviewOutcome(points_ledger, modifiable_mechanic_videogames,
                                                game_id, player_id, mmv_id,
                                                point_dimension_id, amount)]
    /\ IF req'[r].resp.can_redeem = Some(TRUE) /\ next_ledger_id \in LedgerIds
       THEN /\ points_ledger' = points_ledger \cup
                 {[id_points_ledger |-> next_ledger_id, id_players |-> player_id,
                   id_point_dimension |-> point_dimension_id, id_videogame |-> Some(game_id),
                   direction |-> "DEBIT", amount |-> amount, source_type |-> "REDEMPTION",
                   source_ref |-> [prefix |-> "REDEMPTION", token |-> 1]]}
            /\ next_ledger_id' = next_ledger_id + 1
       ELSE UNCHANGED << points_ledger, next_ledger_id >>
    /\ UNCHANGED << redemption_event, modifiable_mechanic_videogames,
                    player_videogame, lsg_game_session >>
    /\ UNCHANGED authVars
    /\ UNCHANGED catalogVars
    /\ UNCHANGED sessionVars
    /\ UNCHANGED dbVars
    /\ UNCHANGED reportVars

\* POST /videogames/{game_id}/players/{player_id}/redeem/preview
preview_redeem_mechanic(r, game_id, player_id, mmv_id, point_dimension_id, amount) ==
    /\ Free(r)
    /\ req' = [req EXCEPT ![r] = PreviewOutcome(points_ledger, modifiable_mechanic_videogames,
                                                game_id, player_id, mmv_id,
                                                point_dimension_id, amount)]
    /\ UNCHANGED << points_ledger, redemption_event, modifiable_mechanic_videogames,
                    next_ledger_id, player_videogame, lsg_game_session >>
    /\ UNCHANGED authVars
    /\ UNCHANGED catalogVars
    /\ UNCHANGED sessionVars
    /\ UNCHANGED dbVars
    /\ UNCHANGED reportVars

(* ------------------------------ redeem --------------------------------- *)

RedeemSourceRef(token) == [prefix |-> "REDEMPTION", token |-> token]

\* variant: the redemption is booked as a CREDIT
RedeemLedgerRowAsCredit(id, q) == [id_points_ledger |-> id, id_players |-> q.player_id[1], id_point_dimension |-> q.payload.point_dimension_id[1], id_videogame |-> q.game_id, direction |-> "CREDIT", amount |-> q.payload.amount[1], source_type |-> "REDEMPTION", source_ref |-> q.source_ref[1]]

\* the row of INSERT INTO points_ledger (... 'DEBIT', :amount, 'REDEMPTION', ...)
RedeemLedgerRow(id, q) ==
    [id_points_ledger   |-> id,
     id_players         |-> q.player_id[1],
     id_point_dimension |-> q.payload.point_dimension_id[1],
     id_videogame       |-> q.game_id,
     direction          |-> "DEBIT",
     amount             |-> q.payload.amount[1],
     source_type        |-> "REDEMPTION",
     source_ref         |-> q.source_ref[1]]

\* the row of INSERT INTO redemption_event (id_points_ledger, id_mmv, redeemed_points)
RedemptionEventRow(q) ==
    [id_points_ledger                 |-> q.pl_id[1],
     id_modifiable_mechanic_videogame |-> q.payload.modifiable_mechanic_videogame_id[1],
     redeemed_points                  |-> q.payload.amount[1]]

\* variant: only an empty balance is refused
InsufficientOnlyWhenEmpty(current_balance, amount) == current_balance <= 0

\* if current_balance < payload.amount: raise 400 INSUFFICIENT_POINTS
Insufficient(current_balance, amount) == current_balance < amount

InsufficientPoints(current_balance, amount) ==
    [NoResp EXCEPT !.status = 400, !.code = "INSUFFICIENT_POINTS",
                   !.current_balance = Some(current_balance),
                   !.required_amount = Some(amount)]

\* except Exception: db.rollback(); raise HTTPException(400, "Error redeeming: ...")
RedeemRollback(q) ==
    [q EXCEPT !.pc = "done", !.tx_ledger = {}, !.tx_event = {},
              !.resp = [NoResp EXCEPT !.status = 400, !.code = "Error redeeming"]]

\* POST /videogames/{game_id}/players/{player_id}/redeem, up to the sufficiency check:
\* the ownership check, the balance read, the comparison and the generated source_ref
redeem_mechanic(r, game_id, player_id, mmv_id, point_dimension_id, amount, token) ==
    /\ Free(r)
    /\ LET start == [IdleReq EXCEPT !.op = "redeem",
                                    !.game_id = Some(game_id), !.player_id = Some(player_id),
                                    !.payload = RedeemPayload(mmv_id, point_dimension_id, amount)]
           current_balance == GetPlayerGameDimensionBalance(points_ledger, player_id, game_id,
                                                             point_dimension_id)
       IN  IF ~MmvExistsForGame(modifiable_mechanic_videogames, game_id, mmv_id)
           THEN req' = [req EXCEPT ![r] = [start EXCEPT !.pc = "done", !.resp = MmvNotFound]]
           ELSE IF Insufficient(current_balance, amount)
           THEN req' = [req EXCEPT ![r] =
                          [start EXCEPT !.pc = "done",
                                        !.current_balance = Some(current_balance),
                                        !.resp = InsufficientPoints(current_balance, amount)]]
           ELSE req' = [req EXCEPT ![r] =
                          [start EXCEPT !.pc = "checked",
                                        !.current_balance = Some(current_balance),
                                        !.source_ref = Some(RedeemSourceRef(token))]]
    /\ UNCHANGED << points_ledger, redemption_event, modifiable_mechanic_videogames,
                    next_ledger_id, player_videogame, lsg_game_session >>
    /\ UNCHANGED authVars
    /\ UNCHANGED catalogVars
    /\ UNCHANGED sessionVars
    /\ UNCHANGED dbVars
    /\ UNCHANGED reportVars

\* variant: the ledger INSERT is committed on its own, before the event INSERT
redeem_insert_ledger_autocommit(r) ==
    /\ req[r].pc = "checked"
    /\ \/ /\ req' = [req EXCEPT ![r] =
                       [@ EXCEPT !.pc = "ledger_inserted",
                                 !.pl_id = Some(next_ledger_id)]]
          /\ points_ledger' = points_ledger \cup {RedeemLedgerRow(next_ledger_id, req[r])}
          /\ next_ledger_id' = next_ledger_id + 1
       \/ /\ req' = [req EXCEPT ![r] = RedeemRollback(@)]
          /\ UNCHANGED << next_ledger_id, points_ledger >>
    /\ UNCHANGED << redemption_event, modifiable_mechanic_videogames,
                    player_videogame, lsg_game_session >>
    /\ UNCHANGED authVars
    /\ UNCHANGED catalogVars
    /\ UNCHANGED sessionVars
    /\ UNCHANGED dbVars
    /\ UNCHANGED reportVars

\* step 2: INSERT INTO points_ledger; pl_id = result.lastrowid
redeem_insert_ledger(r) ==
    /\ req[r].pc = "checked"
    /\ \/ /\ req' = [req EXCEPT ![r] =
                       [@ EXCEPT !.pc = "ledger_inserted",
                                 !.pl_id = Some(next_ledger_id),
                                 !.tx_ledger = {RedeemLedgerRow(next_ledger_id, req[r])}]]
          /\ next_ledger_id' = next_ledger_id + 1
       \/ \* the statement raises
          /\ req' = [req EXCEPT ![r] = RedeemRollback(@)]
          /\ UNCHANGED next_ledger_id
    /\ UNCHANGED << points_ledger, redemption_event, modifiable_mechanic_videogames,
                    player_videogame, lsg_game_session >>
    /\ UNCHANGED authVars
    /\ UNCHANGED catalogVars
    /\ UNCHANGED sessionVars
    /\ UNCHANGED dbVars
    /\ UNCHANGED reportVars

\* step 3: INSERT INTO redemption_event
redeem_insert_event(r) ==
    /\ req[r].pc = "ledger_inserted"
    /\ \/ req' = [req EXCEPT ![r] =
                    [@ EXCEPT !.pc = "event_inserted",
                              !.tx_event = {RedemptionEventRow(req[r])}]]
       \/ \* the statement raises (e.g. fk_re_mmv)
          req' = [req EXCEPT ![r] = RedeemRollback(@)]
    /\ UNCHANGED << points_ledger, redemption_event, modifiable_mechanic_videogames,
                    next_ledger_id, player_videogame, lsg_game_session >>
    /\ UNCHANGED authVars
    /\ UNCHANGED catalogVars
    /\ UNCHANGED sessionVars
    /\ UNCHANGED dbVars
    /\ UNCHANGED reportVars

\* variant: the inserted row takes the place of the earlier rows of the same player, game
\* and dimension (REPLACE INTO instead of INSERT INTO)
CommitLedgerReplacing(ledger, tx) ==
    { x \in ledger : \A y \in tx : ~ ( /\ x.id_players = y.id_players
                                        /\ x.id_videogame = y.id_videogame
                                        /\ x.id_point_dimension = y.id_point_dimension ) }
      \cup tx

\* the effect of db.commit() on points_ledger: the rows of the INSERT statements are added
CommitLedger(ledger, tx) == ledger \cup tx

\* db.commit(); resulting_balance = current_balance - payload.amount; return {...}
redeem_commit(r) ==
    /\ req[r].pc = "event_inserted"
    /\ \/ /\ points_ledger' = CommitLedger(points_ledger, req[r].tx_ledger)
          /\ redemption_event' = redemption_event \cup req[r].tx_event
          /\ req' = [req EXCEPT ![r] =
                       [@ EXCEPT !.pc = "done", !.tx_ledger = {}, !.tx_event = {},
                                 !.resp = [NoResp EXCEPT
                                   !.status = 200,
                                   !.code = "redeemed",
                                   !.points_ledger_id = req[r].pl_id,
                                   !.source_ref = req[r].source_ref,
                                   !.current_balance = req[r].current_balance,
                                   !.required_amount = req[r].payload.amount,
                                   !.resulting_balance =
                                       Some(req[r].current_balance[1] - req[r].payload.amount[1])]]]
       \/ \* the commit raises
          /\ req' = [req EXCEPT ![r] = RedeemRollback(@)]
          /\ UNCHANGED << points_ledger, redemption_event >>
    /\ UNCHANGED << modifiable_mechanic_videogames, next_ledger_id,
                    player_videogame, lsg_game_session >>
    /\ UNCHANGED authVars
    /\ UNCHANGED catalogVars
    /\ UNCHANGED sessionVars
    /\ UNCHANGED dbVars
    /\ UNCHANGED reportVars

(* ------------------------------ adjust --------------------------------- *)

AdjustSourceRef(token) == [prefix |-> "ADJUST", token |-> token]

\* PointsAdjustRequest: amount: int = Field(..., gt=0)
PointsAdjustRequestValid(amount) == amount > 0

\* variant: the direction of the request is not written (every adjustment a CREDIT)
AdjustLedgerRowAlwaysCredit(id, player_id, point_dimension_id, videogame_id, direction, amount, token) ==
    [id_points_ledger   |-> id,
     id_players         |-> player_id,
     id_point_dimension |-> point_dimension_id,
     id_videogame       |-> videogame_id,
     direction          |-> "CREDIT",
     amount             |-> amount,
     source_type        |-> "ADJUST",
     source_ref         |-> AdjustSourceRef(token)]

\* the row of INSERT INTO points_ledger (... :direction, :amount, 'ADJUST', ...)
AdjustLedgerRow(id, player_id, point_dimension_id, videogame_id, direction, amount, token) ==
    [id_points_ledger   |-> id,
     id_players         |-> player_id,
     id_point_dimension |-> point_dimension_id,
     id_videogame       |-> videogame_id,
     direction          |-> direction,
     amount             |-> amount,
     source_type        |-> "ADJUST",
     source_ref         |-> AdjustSourceRef(token)]

\* POST /players/{player_id}/points/adjust (one INSERT and the commit)
adjust_player_points(r, player_id, point_dimension_id, direction, amount, videogame_id, token) ==
    /\ Free(r)
    /\ LET start == [IdleReq EXCEPT !.pc = "done", !.op = "adjust",
                                    !.player_id = Some(player_id),
                                    !.payload = [NoPayload EXCEPT
                                                   !.point_dimension_id = Some(point_dimension_id),
                                                   !.direction = Some(direction),
                                                   !.amount = Some(amount),
                                                   !.videogame_id = videogame_id]]
       IN  IF ~PointsAdjustRequestValid(amount)
           THEN \* request validation fails before the handler runs
                /\ req' = [req EXCEPT ![r] =
                             [start EXCEPT !.resp = [NoResp EXCEPT !.status = 422,
                                                                   !.code = "validation"]]]
                /\ UNCHANGED << points_ledger, next_ledger_id >>
           ELSE \/ /\ points_ledger' = points_ledger \cup
                        {AdjustLedgerRow(next_ledger_id, player_id, point_dimension_id,
                                         videogame_id, direction, amount, token)}
                   /\ next_ledger_id' = next_ledger_id + 1
                   /\ req' = [req EXCEPT ![r] =
                                [start EXCEPT !.source_ref = Some(AdjustSourceRef(token)),
                                              !.resp = [NoResp EXCEPT
                                                          !.status = 200, !.code = "ok",
                                                          !.source_ref = Some(AdjustSourceRef(token))]]]
                \/ \* the INSERT or the commit raises: db.rollback(); 400
                   /\ req' = [req EXCEPT ![r] =
                                [start EXCEPT !.resp = [NoResp EXCEPT
                                                          !.status = 400,
                                                          !.code = "Error adjusting points"]]]
                   /\ UNCHANGED << points_ledger, next_ledger_id >>
    /\ UNCHANGED << redemption_event, modifiable_mechanic_videogames,
                    player_videogame, lsg_game_session >>
    /\ UNCHANGED authVars
    /\ UNCHANGED catalogVars
    /\ UNCHANGED sessionVars
    /\ UNCHANGED dbVars
    /\ UNCHANGED reportVars

(* --------------------------- delete_player ----------------------------- *)

\* sp_delete_player_cascade(p_id) on points_ledger: the player's ledger rows are removed
CascadeLedger(ledger, player_id) == { x \in ledger : x.id_players # player_id }

\* sp_delete_player_cascade(p_id) on redemption_event: the events of removed ledger rows go
CascadeEvents(events, ledger, player_id) ==
    { e \in events : \E x \in CascadeLedger(ledger, player_id) :
                       x.id_points_ledger = e.id_points_ledger }

\* sp_delete_player_cascade(p_id) on player_videogame
CascadePlayerVideogame(pvg, player_id) == { x \in pvg : x.id_players # player_id }

\* sp_delete_player_cascade(p_id) on lsg_game_session: the sessions of removed associations go
CascadeSessions(sessions, pvg, player_id) ==
    { x \in sessions : \E a \in CascadePlayerVideogame(pvg, player_id) :
                         a.id_player_videogame = x.id_player_videogame }

\* DELETE /players/{player_id}: CALL sp_delete_player_cascade(:p_id); db.commit()
delete_player(r, player_id) ==
    /\ Free(r)
    /\ LET start == [IdleReq EXCEPT !.pc = "done", !.op = "delete_player",
                                    !.player_id = Some(player_id)]
       IN  \/ /\ points_ledger' = CascadeLedger(points_ledger, player_id)
              /\ redemption_event' = CascadeEvents(redemption_event, points_ledger, player_id)
              /\ player_videogame' = CascadePlayerVideogame(player_videogame, player_id)
              /\ lsg_game_session' = CascadeSessions(lsg_game_session, player_videogame,
                                                     player_id)
              /\ req' = [req EXCEPT ![r] =
                           [start EXCEPT !.resp = [NoResp EXCEPT !.status = 200,
                                                                 !.code = "deleted"]]]
           \/ \* the procedure or the commit raises: db.rollback(); 400
              /\ req' = [req EXCEPT ![r] =
                           [start EXCEPT !.resp = [NoResp EXCEPT
                                                     !.status = 400,
                                                     !.code = "Error deleting player"]]]
              /\ UNCHANGED << points_ledger, redemption_event, player_videogame,
                              lsg_game_session >>
    /\ UNCHANGED << modifiable_mechanic_videogames, next_ledger_id >>
    /\ UNCHANGED authVars
    /\ UNCHANGED catalogVars
    /\ UNCHANGED sessionVars
    /\ UNCHANGED dbVars
    /\ UNCHANGED reportVars

(* ----------------------------- response -------------------------------- *)

\* the handler returns (or its HTTPException is rendered); the slot is free again
respond(r) ==
    /\ req[r].pc = "done"
    /\ req' = [req EXCEPT ![r] = IdleReq]
    /\ UNCHANGED << points_ledger, redemption_event, modifiable_mechanic_videogames,
                    next_ledger_id, player_videogame, lsg_game_session >>
    /\ UNCHANGED authVars
    /\ UNCHANGED catalogVars
    /\ UNCHANGED sessionVars
    /\ UNCHANGED dbVars
    /\ UNCHANGED reportVars

(* ------------------------- security.py: values ------------------------- *)

ROLE_ALL == {"player", "teacher", "researcher", "admin"}

\* a JWT claim: absent, an integer, or a string (a sequence of characters)
Absent == [kind |-> "absent", n |-> 0, s |-> << >>]
IntVal(n) == [kind |-> "int", n |-> n, s |-> << >>]
StrVal(s) == [kind |-> "str", n |-> 0, s |-> s]

DigitChars == << "0", "1", "2", "3", "4", "5", "6", "7", "8", "9" >>
DigitValue(c) == (CHOOSE i \in 1..10 : DigitChars[i] = c) - 1
IsDigitChar(c) == \E i \in 1..10 : DigitChars[i] = c

\* Python truthiness: None, 0 and "" are falsy
Truthy(v) ==
    CASE v.kind = "absent" -> FALSE
      [] v.kind = "int"    -> v.n # 0
      [] v.kind = "str"    -> v.s # << >>

\* a or b
PyOr(a, b) == IF Truthy(a) THEN a ELSE b

RECURSIVE NatToStr(_)
NatToStr(n) ==
    IF n < 10 THEN << DigitChars[n + 1] >>
    ELSE NatToStr(n \div 10) \o << DigitChars[(n % 10) + 1] >>

\* str(payload.get("sub", ""))
PyStr(v) ==
    CASE v.kind = "absent" -> << >>
      [] v.kind = "int"    -> IF v.n < 0 THEN << "-" >> \o NatToStr(0 - v.n) ELSE NatToStr(v.n)
      [] v.kind = "str"    -> v.s

\* str.isdigit()
IsDigit(s) == s # << >> /\ \A i \in 1..Len(s) : IsDigitChar(s[i])

RECURSIVE DigitsToNat(_)
DigitsToNat(s) ==
    IF s = << >> THEN 0
    ELSE 10 * DigitsToNat(SubSeq(s, 1, Len(s) - 1)) + DigitValue(s[Len(s)])

\* int(x): [ok, n]; ok = FALSE stands for TypeError / ValueError
PyInt(v) ==
    CASE v.kind = "int" -> [ok |-> TRUE, n |-> v.n]
      [] v.kind = "str" ->
           IF IsDigit(v.s) THEN [ok |-> TRUE, n |-> DigitsToNat(v.s)]
           ELSE IF Len(v.s) > 1 /\ v.s[1] \in {"-", "+"} /\ IsDigit(Tail(v.s))
           THEN [ok |-> TRUE, n |-> IF v.s[1] = "-" THEN 0 - DigitsToNat(Tail(v.s))
                                    ELSE DigitsToNat(Tail(v.s))]
           ELSE [ok |-> FALSE, n |-> 0]
      [] OTHER -> [ok |-> FALSE, n |-> 0]

NoClaims == [sub |-> Absent, role |-> None, player_id |-> Absent, id_players |-> Absent]

\* CurrentUser(sub, role, player_id, ...); email and type are passed through and left out
CurrentUser(sub, role, player_id, raw_claims) ==
    [sub |-> sub, role |-> role, player_id |-> player_id, raw_claims |-> raw_claims]

\* if AUTH_DISABLED: return CurrentUser(sub="dev-admin", role="admin", player_id=None, ...)
DevAdmin == CurrentUser(<< "d", "e", "v", "-", "a", "d", "m", "i", "n" >>, "admin", None, NoClaims)

\* variant: a request without an Authorization header is taken for the development admin
GetCurrentUserAnonymousAdmin(auth_disabled, credentials, payload) ==
    IF auth_disabled \/ credentials = "none" THEN [status |-> 0, user |-> Some(DevAdmin)]
    ELSE IF credentials = "invalid" THEN [status |-> 401, user |-> None]
    ELSE LET sub == PyStr(payload.sub)
             role0 == IF payload.role = None THEN "player" ELSE payload.role[1]
             role == IF role0 \notin ROLE_ALL THEN "player" ELSE role0
             player_id_raw == PyOr(payload.player_id, payload.id_players)
         IN  IF sub = << >> THEN [status |-> 401, user |-> None]
             ELSE IF player_id_raw.kind # "absent"
             THEN IF PyInt(player_id_raw).ok
                  THEN [status |-> 0,
                        user |-> Some(CurrentUser(sub, role, Some(PyInt(player_id_raw).n),
                                                  payload))]
                  ELSE [status |-> 401, user |-> None]
             ELSE IF IsDigit(sub)
                  THEN [status |-> 0,
                        user |-> Some(CurrentUser(sub, role, Some(DigitsToNat(sub)), payload))]
                  ELSE [status |-> 0, user |-> Some(CurrentUser(sub, role, None, payload))]

\* get_current_user: [status, user]; status 401 when an HTTPException is raised, else 0.
\* credentials is "none" (no Authorization header), "invalid" (_decode_token raises
\* JWTError) or "valid" (_decode_token returns payload)
GetCurrentUser(auth_disabled, credentials, payload) ==
    IF auth_disabled THEN [status |-> 0, user |-> Some(DevAdmin)]
    ELSE IF credentials = "none" THEN [status |-> 401, user |-> None]
    ELSE IF credentials = "invalid" THEN [status |-> 401, user |-> None]
    ELSE LET sub == PyStr(payload.sub)
             role0 == IF payload.role = None THEN "player" ELSE payload.role[1]
             role == IF role0 \notin ROLE_ALL THEN "player" ELSE role0
             player_id_raw == PyOr(payload.player_id, payload.id_players)
         IN  IF sub = << >> THEN [status |-> 401, user |-> None]
             ELSE IF player_id_raw.kind # "absent"
             THEN IF PyInt(player_id_raw).ok
                  THEN [status |-> 0,
                        user |-> Some(CurrentUser(sub, role, Some(PyInt(player_id_raw).n),
                                                  payload))]
                  ELSE [status |-> 401, user |-> None]
             ELSE IF IsDigit(sub)
                  THEN [status |-> 0,
                        user |-> Some(CurrentUser(sub, role, Some(DigitsToNat(sub)), payload))]
                  ELSE [status |-> 0, user |-> Some(CurrentUser(sub, role, None, payload))]

\* variant: any recognized role is admitted, whatever the route's list
RequireRolesAnyKnownRole(open_all, allowed_roles, current_user) ==
    IF open_all THEN TRUE
    ELSE current_user.role \in ROLE_ALL

\* require_roles(allowed_roles).dependency: TRUE = returns current_user, FALSE = raises 403
RequireRoles(open_all, allowed_roles, current_user) ==
    IF open_all THEN TRUE
    ELSE current_user.role \in allowed_roles

\* variant: a player is admitted without comparing its player_id with the path's
GuardPlayerAccessAnyPlayer(open_all, player_id, current_user) ==
    IF open_all THEN TRUE
    ELSE IF current_user.role \in {"admin", "researcher", "teacher"} THEN TRUE
    ELSE IF current_user.role = "player" THEN TRUE
    ELSE FALSE

\* guard_player_access: TRUE = returns current_user, FALSE = raises 403
GuardPlayerAccess(open_all, player_id, current_user) ==
    IF open_all THEN TRUE
    ELSE IF current_user.role \in {"admin", "researcher", "teacher"} THEN TRUE
    ELSE IF current_user.role = "player"
            /\ current_user.player_id # None /\ current_user.player_id[1] = player_id
         THEN TRUE
    ELSE FALSE

(* ------------------------- security.py: routes ------------------------- *)

RolesGate(roles) == [kind |-> "roles", roles |-> roles]
GuardGate == [kind |-> "guard", roles |-> {}]

require_admin == RolesGate({"admin"})
require_admin_or_researcher == RolesGate({"admin", "researcher"})
require_admin_or_researcher_or_teacher == RolesGate({"admin", "researcher", "teacher"})
require_player_or_higher == RolesGate(ROLE_ALL)

\* routes whose path carries {player_id}
PlayerRoutes ==
    { "get_player", "delete_player", "init_player_attributes", "get_player_games",
      "get_player_timeline", "get_player_points_balance", "get_player_attribute_points",
      "adjust_player_points", "preview_redeem_mechanic", "redeem_mechanic",
      "start_session", "end_session", "get_player_sensors", "list_player_ingest_events" }

\* routes without a player id in the path
OtherRoutes ==
    { "list_players", "list_sensors", "list_sensor_endpoints", "list_videogames",
      "get_points_ledger", "admin_create_attribute", "admin_points_consistency_check" }

Routes == PlayerRoutes \cup OtherRoutes

\* the authorization dependency each route declares
RouteGate(route) ==
    CASE route = "list_players"                   -> require_admin_or_researcher
      [] route = "get_player"                     -> GuardGate
      [] route = "delete_player"                  -> require_admin
      [] route = "init_player_attributes"         -> require_admin_or_researcher
      [] route = "get_player_games"               -> GuardGate
      [] route = "get_player_timeline"            -> GuardGate
      [] route = "get_player_points_balance"      -> GuardGate
      [] route = "get_player_attribute_points"    -> GuardGate
      [] route = "get_points_ledger"              -> RolesGate(ROLE_ALL)
      [] route = "adjust_player_points"           -> RolesGate({"admin", "researcher"})
      [] route = "list_videogames"                -> RolesGate(ROLE_ALL)
      [] route = "preview_redeem_mechanic"        -> GuardGate
      [] route = "redeem_mechanic"                -> GuardGate
      [] route = "start_session"                  -> GuardGate
      [] route = "end_session"                    -> GuardGate
      [] route = "list_sensors"                   -> require_admin_or_researcher
      [] route = "list_sensor_endpoints"          -> require_admin_or_researcher
      [] route = "get_player_sensors"             -> GuardGate
      [] route = "list_player_ingest_events"      -> GuardGate
      [] route = "admin_create_attribute"         -> RolesGate({"admin"})
      [] route = "admin_points_consistency_check" -> RolesGate({"admin", "researcher"})

(* ------------------------ security.py: requests ------------------------ *)

IdleHttp == [pc |-> "idle", route |-> "", player_id |-> None, credentials |-> "none",
             claims |-> NoClaims, current_user |-> None, status |-> 0]

SubClaims == { Absent, StrVal(<< >>), StrVal(<< "1" >>), StrVal(<< "a" >>), IntVal(2) }
RoleClaims == { None } \cup { Some(x) : x \in ROLE_ALL \cup {"guest"} }
PlayerIdClaims == { Absent, IntVal(0), IntVal(1), StrVal(<< "2" >>), StrVal(<< "x" >>) }
IdPlayersClaims == { Absent, IntVal(0), IntVal(2) }
Claims == [sub : SubClaims, role : RoleClaims, player_id : PlayerIdClaims,
           id_players : IdPlayersClaims]

\* the credentials a request may carry: none, an unverifiable token, a verified payload
Credentials ==
    { [credentials |-> "none", claims |-> NoClaims],
      [credentials |-> "invalid", claims |-> NoClaims] }
    \cup { [credentials |-> "valid", claims |-> c] : c \in Claims }

InitAuthIdle ==
    /\ AUTH_DISABLED = FALSE
    /\ AUTH_OPEN_ALL = TRUE
    /\ http = IdleHttp

\* the two switches are environment variables read when security.py is imported
InitAuth ==
    /\ AUTH_DISABLED \in BOOLEAN
    /\ AUTH_OPEN_ALL \in BOOLEAN
    /\ http = IdleHttp

\* a request arrives at a route; Depends(get_current_user) runs first
get_current_user(route, player_id, cred) ==
    /\ http.pc = "idle"
    /\ LET got == GetCurrentUser(AUTH_DISABLED, cred.credentials, cred.claims)
           arrived == [IdleHttp EXCEPT !.route = route, !.player_id = player_id,
                                       !.credentials = cred.credentials,
                                       !.claims = cred.claims]
       IN  IF got.status = 401
           THEN http' = [arrived EXCEPT !.pc = "done", !.status = 401]
           ELSE http' = [arrived EXCEPT !.pc = "authenticated", !.current_user = got.user]
    /\ UNCHANGED << AUTH_DISABLED, AUTH_OPEN_ALL >>
    /\ UNCHANGED pointsVars
    /\ UNCHANGED catalogVars
    /\ UNCHANGED sessionVars
    /\ UNCHANGED dbVars
    /\ UNCHANGED reportVars

\* Depends(require_roles(allowed_roles)) of the route
require_roles(route) ==
    /\ http.pc = "authenticated"
    /\ http.route = route
    /\ RouteGate(route).kind = "roles"
    /\ IF RequireRoles(AUTH_OPEN_ALL, RouteGate(route).roles, http.current_user[1])
       THEN http' = [http EXCEPT !.pc = "done", !.status = 200]
       ELSE http' = [http EXCEPT !.pc = "done", !.status = 403]
    /\ UNCHANGED << AUTH_DISABLED, AUTH_OPEN_ALL >>
    /\ UNCHANGED pointsVars
    /\ UNCHANGED catalogVars
    /\ UNCHANGED sessionVars
    /\ UNCHANGED dbVars
    /\ UNCHANGED reportVars

\* Depends(guard_player_access) of the route
guard_player_access(route) ==
    /\ http.pc = "authenticated"
    /\ http.route = route
    /\ RouteGate(route).kind = "guard"
    /\ IF GuardPlayerAccess(AUTH_OPEN_ALL, http.player_id[1], http.current_user[1])
       THEN http' = [http EXCEPT !.pc = "done", !.status = 200]
       ELSE http' = [http EXCEPT !.pc = "done", !.status = 403]
    /\ UNCHANGED << AUTH_DISABLED, AUTH_OPEN_ALL >>
    /\ UNCHANGED pointsVars
    /\ UNCHANGED catalogVars
    /\ UNCHANGED sessionVars
    /\ UNCHANGED dbVars
    /\ UNCHANGED reportVars

\* the response is sent; the next request may arrive
http_respond ==
    /\ http.pc = "done"
    /\ http' = IdleHttp
    /\ UNCHANGED << AUTH_DISABLED, AUTH_OPEN_ALL >>
    /\ UNCHANGED pointsVars
    /\ UNCHANGED catalogVars
    /\ UNCHANGED sessionVars
    /\ UNCHANGED dbVars
    /\ UNCHANGED reportVars

(* ------------------------ games.py: sessions --------------------------- *)

\* SessionStartRequest / SessionEndRequest: the optional timestamps
NoSessionPayload == [started_at |-> None, ended_at |-> None]

IdleSess == [pc |-> "idle", op |-> "", game_id |-> None, player_id |-> None,
             session_id |-> None, payload |-> NoSessionPayload, started_at |-> None,
             pvg_id |-> None, tx_pvg |-> {}, tx_session |-> {},
             status |-> 0, detail |-> "", id_session |-> None]

\* payload.started_at or datetime.utcnow() (a datetime is always truthy)
TimeOr(given, now) == IF given # None THEN given[1] ELSE now

\* SELECT id_player_videogame FROM player_videogame WHERE id_players = :pid AND
\* id_videogame = :gid
PlayerVideogameOf(pvg, player_id, game_id) ==
    { x \in pvg : x.id_players = player_id /\ x.id_videogame = game_id }

\* the row of INSERT INTO player_videogame (..., lsg_enabled, first_seen, ...) VALUES (..., 1, NOW(), ...)
PlayerVideogameRow(id, player_id, game_id, now) ==
    [id_player_videogame |-> id, id_players |-> player_id, id_videogame |-> game_id,
     lsg_enabled |-> TRUE, first_seen |-> now]

\* the row of INSERT INTO lsg_game_session (id_player_videogame, started_at, session_metrics)
SessionRow(id, pvg_id, started_at) ==
    [id_lsg_game_session |-> id, id_player_videogame |-> pvg_id,
     started_at |-> started_at, ended_at |-> None]

\* except Exception: db.rollback(); raise HTTPException(400, ...)
SessRollback(q, detail) ==
    [q EXCEPT !.pc = "done", !.tx_pvg = {}, !.tx_session = {}, !.status = 400,
              !.detail = detail]

\* variant: a new association is inserted whether or not one exists
GetOrCreateAlwaysCreates(pvg, player_id, game_id) == {}

\* _get_or_create_player_videogame: the rows the SELECT may return first
GetOrCreateFound(pvg, player_id, game_id) == PlayerVideogameOf(pvg, player_id, game_id)

\* the workers that serve session requests; the second one runs only where two requests
\* are served at a time
SessWorkers == {"first", "peer"}

\* the request the worker is serving
SessOf(w) == IF w = "first" THEN sess ELSE sess_peer

\* the worker's request moves on; the other worker's request stays
SessBecomes(w, q) ==
    IF w = "first" THEN sess' = q /\ UNCHANGED sess_peer
                   ELSE sess_peer' = q /\ UNCHANGED sess

\* POST /videogames/{game_id}/players/{player_id}/sessions, up to the association:
\* started_at and _get_or_create_player_videogame, run by worker w
start_session_by(w, game_id, player_id, payload, now) ==
    /\ SessOf(w).pc = "idle"
    /\ LET start == [IdleSess EXCEPT !.op = "start_session", !.game_id = Some(game_id),
                                     !.player_id = Some(player_id), !.payload = payload,
                                     !.started_at = Some(TimeOr(payload.started_at, now))]
           found == GetOrCreateFound(player_videogame, player_id, game_id)
       IN  IF found # {}
           THEN /\ \E row \in found :
                     SessBecomes(w, [start EXCEPT !.pc = "pvg_resolved",
                                                  !.pvg_id = Some(row.id_player_videogame)])
                /\ UNCHANGED next_player_videogame_id
           ELSE \/ /\ SessBecomes(w, [start EXCEPT
                                 !.pc = "pvg_resolved",
                                 !.pvg_id = Some(next_player_videogame_id),
                                 !.tx_pvg = {PlayerVideogameRow(next_player_videogame_id,
                                                                player_id, game_id, now)}])
                   /\ next_player_videogame_id' = next_player_videogame_id + 1
                \/ \* the INSERT raises (e.g. unknown player or game)
                   /\ SessBecomes(w, SessRollback(start, "Error starting session"))
                   /\ UNCHANGED next_player_videogame_id
    /\ UNCHANGED << player_videogame, lsg_game_session, next_session_id >>
    /\ UNCHANGED << points_ledger, redemption_event, modifiable_mechanic_videogames,
                    next_ledger_id, req >>
    /\ UNCHANGED authVars
    /\ UNCHANGED catalogVars
    /\ UNCHANGED dbVars
    /\ UNCHANGED reportVars

\* the route as the one worker of the sequential specifications runs it
start_session(game_id, player_id, payload, now) ==
    start_session_by("first", game_id, player_id, payload, now)

\* start_session: INSERT INTO lsg_game_session, run by worker w
start_session_insert_by(w) ==
    /\ SessOf(w).pc = "pvg_resolved"
    /\ \/ /\ SessBecomes(w, [SessOf(w) EXCEPT
                               !.pc = "session_inserted",
                               !.id_session = Some(next_session_id),
                               !.tx_session = {SessionRow(next_session_id, SessOf(w).pvg_id[1],
                                                          SessOf(w).started_at[1])}])
          /\ next_session_id' = next_session_id + 1
       \/ \* the statement raises
          /\ SessBecomes(w, SessRollback(SessOf(w), "Error starting session"))
          /\ UNCHANGED next_session_id
    /\ UNCHANGED << player_videogame, lsg_game_session, next_player_videogame_id >>
    /\ UNCHANGED << points_ledger, redemption_event, modifiable_mechanic_videogames,
                    next_ledger_id, req >>
    /\ UNCHANGED authVars
    /\ UNCHANGED catalogVars
    /\ UNCHANGED dbVars
    /\ UNCHANGED reportVars

start_session_insert == start_session_insert_by("first")

\* start_session: db.commit(); session_id = result.lastrowid; return, run by worker w
start_session_commit_by(w) ==
    /\ SessOf(w).pc = "session_inserted"
    /\ \/ /\ player_videogame' = player_videogame \cup SessOf(w).tx_pvg
          /\ lsg_game_session' = lsg_game_session \cup SessOf(w).tx_session
          /\ SessBecomes(w, [SessOf(w) EXCEPT !.pc = "done", !.tx_pvg = {}, !.tx_session = {},
                                              !.status = 200, !.detail = "started"])
       \/ \* the commit raises
          /\ SessBecomes(w, SessRollback(SessOf(w), "Error starting session"))
          /\ UNCHANGED << player_videogame, lsg_game_session >>
    /\ UNCHANGED << next_player_videogame_id, next_session_id >>
    /\ UNCHANGED << points_ledger, redemption_event, modifiable_mechanic_videogames,
                    next_ledger_id, req >>
    /\ UNCHANGED authVars
    /\ UNCHANGED catalogVars
    /\ UNCHANGED dbVars
    /\ UNCHANGED reportVars

start_session_commit == start_session_commit_by("first")

\* variant: the session is matched by its id alone
EndSessionMatchesById(sessions, pvg, session_id, player_id, game_id) ==
    { x \in sessions : x.id_lsg_game_session = session_id }

\* UPDATE lsg_game_session s JOIN player_videogame pvg ON ... WHERE s.id_lsg_game_session =
\* :sid AND pvg.id_players = :pid AND pvg.id_videogame = :gid -- the rows matched
EndSessionMatches(sessions, pvg, session_id, player_id, game_id) ==
    { x \in sessions :
        /\ x.id_lsg_game_session = session_id
        /\ \E a \in pvg : /\ a.id_player_videogame = x.id_player_videogame
                          /\ a.id_players = player_id
                          /\ a.id_videogame = game_id }

\* PATCH /videogames/{game_id}/players/{player_id}/sessions/{session_id}/end
end_session(game_id, player_id, session_id, payload, now) ==
    /\ sess.pc = "idle"
    /\ LET start == [IdleSess EXCEPT !.pc = "done", !.op = "end_session",
                                     !.game_id = Some(game_id),
                                     !.player_id = Some(player_id),
                                     !.session_id = Some(session_id), !.payload = payload]
           ended_at == TimeOr(payload.ended_at, now)
           matched == EndSessionMatches(lsg_game_session, player_videogame, session_id,
                                        player_id, game_id)
       IN  \/ /\ matched = {}
              /\ sess' = [start EXCEPT !.status = 404, !.detail = "Session not found"]
              /\ UNCHANGED lsg_game_session
           \/ /\ matched # {}
              /\ lsg_game_session' =
                   { IF x \in matched THEN [x EXCEPT !.ended_at = Some(ended_at)] ELSE x :
                       x \in lsg_game_session }
              /\ sess' = [start EXCEPT !.status = 200, !.detail = "ended",
                                       !.id_session = Some(session_id)]
           \/ \* the UPDATE of the matched rows or the commit raises: db.rollback(); 400
              /\ matched # {}
              /\ sess' = [start EXCEPT !.status = 400, !.detail = "Error ending session"]
              /\ UNCHANGED lsg_game_session
    /\ UNCHANGED << player_videogame, next_player_videogame_id, next_session_id, sess_peer >>
    /\ UNCHANGED << points_ledger, redemption_event, modifiable_mechanic_videogames,
                    next_ledger_id, req >>
    /\ UNCHANGED authVars
    /\ UNCHANGED catalogVars
    /\ UNCHANGED dbVars
    /\ UNCHANGED reportVars

\* the response of worker w is sent; its next session request may arrive
sess_respond_by(w) ==
    /\ SessOf(w).pc = "done"
    /\ SessBecomes(w, IdleSess)
    /\ UNCHANGED << next_player_videogame_id, next_session_id >>
    /\ UNCHANGED pointsVars
    /\ UNCHANGED authVars
    /\ UNCHANGED catalogVars
    /\ UNCHANGED dbVars
    /\ UNCHANGED reportVars

sess_respond == sess_respond_by("first")

(* --------------------- admin_config.py: requests ----------------------- *)

\* the optional fields of the Update models, all unset
NoAdminPayload ==
    [id_attributes |-> None, id_subattributes |-> None, code |-> None, name |-> None,
     description |-> None, data_type |-> None, attribute_id |-> None, type |-> None,
     id_videogame |-> None, id_modifiable_mechanic |-> None, options |-> None]

IdleAdm == [pc |-> "idle", op |-> "", id |-> None, payload |-> NoAdminPayload,
            status |-> 0, detail |-> "", row |-> None]

\* the row with the given value in its key column, as a set (empty when there is none)
RowsWithId(table, key, id) == { x \in table : x[key] = id }

\* _ensure_exists: TRUE when the SELECT returns a row, FALSE when it raises 404
EnsureExists(table, key, id) == RowsWithId(table, key, id) # {}

\* one assignment of the SET list of an UPDATE statement
Assign(col, val) == [col |-> col, val |-> val]

\* UPDATE ... SET fields[1], fields[2], ...: the assignments are applied left to right
RECURSIVE ApplyFields(_, _)
ApplyFields(row, fields) ==
    IF fields = << >> THEN row
    ELSE ApplyFields([row EXCEPT ![Head(fields).col] = Head(fields).val], Tail(fields))

\* UPDATE table SET fields WHERE key = id
UpdateTable(table, key, id, fields) ==
    { IF x[key] = id THEN ApplyFields(x, fields) ELSE x : x \in table }

\* the request ends with an HTTPException
AdmError(q, status, detail) == [q EXCEPT !.pc = "done", !.status = status, !.detail = detail]

\* the request ends by returning the record read back by the entity's GET handler
AdmReturn(q, status, table, key, id) ==
    IF EnsureExists(table, key, id)
    THEN [q EXCEPT !.pc = "done", !.status = status,
                   !.row = Some(CHOOSE x \in table : x[key] = id)]
    ELSE AdmError(q, 404, "not found")

(* ------------------- admin_config.py: point dimensions ----------------- *)

\* PointDimensionBase.validate_linked_entity: exactly one of the two links
PointDimensionCreateValid(payload) ==
    ~ ( \/ payload.id_attributes = None /\ payload.id_subattributes = None
        \/ payload.id_attributes # None /\ payload.id_subattributes # None )

\* PointDimensionUpdate.validate_linked_entity: not both links
PointDimensionUpdateValid(payload) ==
    ~ ( payload.id_attributes # None /\ payload.id_subattributes # None )

PointDimensionRow(id, payload) ==
    [id_point_dimension |-> id,
     id_attributes      |-> payload.id_attributes,
     id_subattributes   |-> payload.id_subattributes,
     code               |-> payload.code[1],
     name               |-> payload.name[1]]

\* POST /admin/point-dimensions
admin_create_point_dimension(payload) ==
    /\ adm.pc = "idle"
    /\ LET start == [IdleAdm EXCEPT !.op = "create_point_dimension", !.payload = payload]
       IN  IF ~PointDimensionCreateValid(payload)
           THEN /\ adm' = AdmError(start, 422, "validation")
                /\ UNCHANGED << point_dimension, next_point_dimension_id >>
           ELSE IF payload.id_attributes # None
                   /\ ~EnsureExists(attributes, "id_attributes", payload.id_attributes[1])
           THEN /\ adm' = AdmError(start, 404, "Attribute not found")
                /\ UNCHANGED << point_dimension, next_point_dimension_id >>
           ELSE IF payload.id_subattributes # None
                   /\ ~EnsureExists(subattributes, "id_subattributes",
                                    payload.id_subattributes[1])
           THEN /\ adm' = AdmError(start, 404, "Subattribute not found")
                /\ UNCHANGED << point_dimension, next_point_dimension_id >>
           ELSE \/ /\ point_dimension' = point_dimension \cup
                        {PointDimensionRow(next_point_dimension_id, payload)}
                   /\ next_point_dimension_id' = next_point_dimension_id + 1
                   /\ adm' = AdmReturn([start EXCEPT !.id = Some(next_point_dimension_id)], 201,
                                       point_dimension', "id_point_dimension",
                                       next_point_dimension_id)
                \/ \* the INSERT or the commit raises: db.rollback(); 400
                   /\ adm' = AdmError(start, 400, "Error creating point dimension")
                   /\ UNCHANGED << point_dimension, next_point_dimension_id >>
    /\ UNCHANGED << attributes, subattributes, videogame, next_videogame_id,
                    modifiable_mechanic, mmv_columns, admin_updates >>
    /\ UNCHANGED pointsVars
    /\ UNCHANGED authVars
    /\ UNCHANGED sessionVars
    /\ UNCHANGED dbVars
    /\ UNCHANGED reportVars

\* variant: the opposite link is left as it was
PointDimensionUpdateFieldsKeepingLink(payload) ==
    (IF payload.id_attributes # None
     THEN << Assign("id_attributes", payload.id_attributes) >> ELSE << >>)
    \o (IF payload.id_subattributes # None
        THEN << Assign("id_subattributes", payload.id_subattributes) >> ELSE << >>)
    \o (IF payload.code # None THEN << Assign("code", payload.code[1]) >> ELSE << >>)
    \o (IF payload.name # None THEN << Assign("name", payload.name[1]) >> ELSE << >>)

\* the SET list admin_update_point_dimension builds from the payload
PointDimensionUpdateFields(payload) ==
    (IF payload.id_attributes # None
     THEN << Assign("id_attributes", payload.id_attributes),
             Assign("id_subattributes", None) >> ELSE << >>)
    \o (IF payload.id_subattributes # None
        THEN << Assign("id_subattributes", payload.id_subattributes),
                Assign("id_attributes", None) >> ELSE << >>)
    \o (IF payload.code # None THEN << Assign("code", payload.code[1]) >> ELSE << >>)
    \o (IF payload.name # None THEN << Assign("name", payload.name[1]) >> ELSE << >>)

\* PUT /admin/point-dimensions/{pd_id}
admin_update_point_dimension(pd_id, payload) ==
    /\ adm.pc = "idle"
    /\ LET start == [IdleAdm EXCEPT !.op = "update_point_dimension", !.id = Some(pd_id),
                                    !.payload = payload]
           fields == PointDimensionUpdateFields(payload)
       IN  IF ~PointDimensionUpdateValid(payload)
           THEN /\ adm' = AdmError(start, 422, "validation")
                /\ UNCHANGED point_dimension
           ELSE IF ~EnsureExists(point_dimension, "id_point_dimension", pd_id)
           THEN /\ adm' = AdmError(start, 404, "Point dimension not found")
                /\ UNCHANGED point_dimension
           ELSE IF payload.id_attributes # None
                   /\ ~EnsureExists(attributes, "id_attributes", payload.id_attributes[1])
           THEN /\ adm' = AdmError(start, 404, "Attribute not found")
                /\ UNCHANGED point_dimension
           ELSE IF payload.id_subattributes # None
                   /\ ~EnsureExists(subattributes, "id_subattributes",
                                    payload.id_subattributes[1])
           THEN /\ adm' = AdmError(start, 404, "Subattribute not found")
                /\ UNCHANGED point_dimension
           ELSE IF fields = << >>
           THEN /\ adm' = AdmReturn(start, 200, point_dimension, "id_point_dimension", pd_id)
                /\ UNCHANGED point_dimension
           ELSE \/ /\ point_dimension' = UpdateTable(point_dimension, "id_point_dimension",
                                                     pd_id, fields)
                   /\ adm' = AdmReturn(start, 200, point_dimension', "id_point_dimension",
                                       pd_id)
                \/ \* the UPDATE or the commit raises: db.rollback(); 400
                   /\ adm' = AdmError(start, 400, "Error updating point dimension")
                   /\ UNCHANGED point_dimension
    /\ UNCHANGED << attributes, subattributes, next_point_dimension_id, videogame,
                    next_videogame_id, modifiable_mechanic, mmv_columns, admin_updates >>
    /\ UNCHANGED pointsVars
    /\ UNCHANGED authVars
    /\ UNCHANGED sessionVars
    /\ UNCHANGED dbVars
    /\ UNCHANGED reportVars

(* ----------------------- games.py: create_videogame -------------------- *)

\* LOWER(c) for the letters the model uses
LowerChar(c) ==
    CASE c = "A" -> "a"
      [] c = "B" -> "b"
      [] c = "C" -> "c"
      [] OTHER   -> c

\* LOWER(name)
Lower(name) == [i \in 1..Len(name) |-> LowerChar(name[i])]

\* VideogameCreateRequest: id_videogame: Optional[int], name: str (the other columns are
\* copied into the row as given)
VideogameCreateRequest(id_videogame, name) == [id_videogame |-> id_videogame, name |-> name]

\* variant: the names are compared as they are written
VideogameNameExistsExact(rows, name) == \E x \in rows : x.name = name

\* SELECT id_videogame FROM videogame WHERE LOWER(name) = LOWER(:name) LIMIT 1
VideogameNameExists(rows, name) == \E x \in rows : Lower(x.name) = Lower(name)

\* POST /videogames
create_videogame(payload) ==
    /\ adm.pc = "idle"
    /\ LET start == [IdleAdm EXCEPT !.op = "create_videogame", !.payload = payload]
           new_id == IF payload.id_videogame = None THEN next_videogame_id
                     ELSE payload.id_videogame[1]
           row == [id_videogame |-> new_id, name |-> payload.name]
       IN  IF VideogameNameExists(videogame, payload.name)
           THEN /\ adm' = AdmError(start, 409, "VIDEOGAME_ALREADY_EXISTS")
                /\ UNCHANGED << videogame, next_videogame_id >>
           ELSE \/ \* the INSERT is accepted: the primary key is free
                   /\ \A x \in videogame : x.id_videogame # new_id
                   /\ videogame' = videogame \cup {row}
                   /\ next_videogame_id' = IF new_id >= next_videogame_id THEN new_id + 1
                                           ELSE next_videogame_id
                   /\ adm' = [start EXCEPT !.pc = "done", !.status = 201, !.id = Some(new_id),
                                           !.row = Some(row)]
                \/ \* the INSERT or the commit raises (a taken primary key among the
                   \* causes): db.rollback(); 400
                   /\ adm' = AdmError(start, 400, "Error creating videogame")
                   /\ UNCHANGED << videogame, next_videogame_id >>
    /\ UNCHANGED << attributes, subattributes, point_dimension, next_point_dimension_id,
                    modifiable_mechanic, mmv_columns, admin_updates >>
    /\ UNCHANGED pointsVars
    /\ UNCHANGED authVars
    /\ UNCHANGED sessionVars
    /\ UNCHANGED dbVars
    /\ UNCHANGED reportVars

(* ---------------- admin_config.py: partial updates --------------------- *)

\* json.dumps(payload.options)
JsonDumps(options) == [json |-> options]

\* variant: every column of the model is written, the unset ones with NULL
AttributeUpdateFieldsOverwriting(payload) ==
    << Assign("name", IF payload.name # None THEN payload.name[1] ELSE "") ,
       Assign("description", payload.description),
       Assign("data_type", payload.data_type) >>

\* the SET list admin_update_attribute builds from the payload
AttributeUpdateFields(payload) ==
    (IF payload.name # None THEN << Assign("name", payload.name[1]) >> ELSE << >>)
    \o (IF payload.description # None
        THEN << Assign("description", payload.description) >> ELSE << >>)
    \o (IF payload.data_type # None
        THEN << Assign("data_type", payload.data_type) >> ELSE << >>)

\* fields.append("updated_at = :updated_at"); params["updated_at"] = datetime.now()
Stamped(fields, now) == fields \o << Assign("updated_at", now) >>

\* PUT /admin/attributes/{attribute_id}
admin_update_attribute(attribute_id, payload, now) ==
    /\ adm.pc = "idle"
    /\ LET start == [IdleAdm EXCEPT !.op = "update_attribute", !.id = Some(attribute_id),
                                    !.payload = payload]
           fields == AttributeUpdateFields(payload)
       IN  IF ~EnsureExists(attributes, "id_attributes", attribute_id)
           THEN /\ adm' = AdmError(start, 404, "Attribute not found")
                /\ UNCHANGED attributes
           ELSE IF fields = << >>
           THEN /\ adm' = AdmReturn(start, 200, attributes, "id_attributes", attribute_id)
                /\ UNCHANGED attributes
           ELSE \/ /\ attributes' = UpdateTable(attributes, "id_attributes", attribute_id,
                                                Stamped(fields, now))
                   /\ adm' = AdmReturn(start, 200, attributes', "id_attributes", attribute_id)
                \/ \* the UPDATE or the commit raises: db.rollback(); 400
                   /\ adm' = AdmError(start, 400, "Error updating attribute")
                   /\ UNCHANGED attributes
    /\ admin_updates' = admin_updates + 1
    /\ UNCHANGED << subattributes, point_dimension, next_point_dimension_id, videogame,
                    next_videogame_id, modifiable_mechanic, mmv_columns >>
    /\ UNCHANGED pointsVars
    /\ UNCHANGED authVars
    /\ UNCHANGED sessionVars
    /\ UNCHANGED dbVars
    /\ UNCHANGED reportVars

\* the SET list admin_update_subattribute builds from the payload
SubattributeUpdateFields(payload) ==
    (IF payload.attribute_id # None
     THEN << Assign("attributes_id_attributes", payload.attribute_id[1]) >> ELSE << >>)
    \o (IF payload.name # None THEN << Assign("name", payload.name[1]) >> ELSE << >>)
    \o (IF payload.description # None
        THEN << Assign("description", payload.description) >> ELSE << >>)

\* PUT /admin/subattributes/{sub_id}
admin_update_subattribute(sub_id, payload, now) ==
    /\ adm.pc = "idle"
    /\ LET start == [IdleAdm EXCEPT !.op = "update_subattribute", !.id = Some(sub_id),
                                    !.payload = payload]
           fields == SubattributeUpdateFields(payload)
       IN  IF ~EnsureExists(subattributes, "id_subattributes", sub_id)
           THEN /\ adm' = AdmError(start, 404, "Subattribute not found")
                /\ UNCHANGED subattributes
           ELSE IF payload.attribute_id # None
                   /\ ~EnsureExists(attributes, "id_attributes", payload.attribute_id[1])
           THEN /\ adm' = AdmError(start, 404, "Attribute not found")
                /\ UNCHANGED subattributes
           ELSE IF fields = << >>
           THEN /\ adm' = AdmReturn(start, 200, subattributes, "id_subattributes", sub_id)
                /\ UNCHANGED subattributes
           ELSE \/ /\ subattributes' = UpdateTable(subattributes, "id_subattributes", sub_id,
                                                   Stamped(fields, now))
                   /\ adm' = AdmReturn(start, 200, subattributes', "id_subattributes", sub_id)
                \/ \* the UPDATE or the commit raises: db.rollback(); 400
                   /\ adm' = AdmError(start, 400, "Error updating subattribute")
                   /\ UNCHANGED subattributes
    /\ admin_updates' = admin_updates + 1
    /\ UNCHANGED << attributes, point_dimension, next_point_dimension_id, videogame,
                    next_videogame_id, modifiable_mechanic, mmv_columns >>
    /\ UNCHANGED pointsVars
    /\ UNCHANGED authVars
    /\ UNCHANGED sessionVars
    /\ UNCHANGED dbVars
    /\ UNCHANGED reportVars

\* the SET list admin_update_mod_mechanic builds from the payload
ModMechanicUpdateFields(payload) ==
    (IF payload.name # None THEN << Assign("name", payload.name[1]) >> ELSE << >>)
    \o (IF payload.description # None
        THEN << Assign("description", payload.description) >> ELSE << >>)
    \o (IF payload.type # None THEN << Assign("type", payload.type) >> ELSE << >>)

\* PUT /admin/modifiable-mechanics/{mm_id}
admin_update_mod_mechanic(mm_id, payload, now) ==
    /\ adm.pc = "idle"
    /\ LET start == [IdleAdm EXCEPT !.op = "update_mod_mechanic", !.id = Some(mm_id),
                                    !.payload = payload]
           fields == ModMechanicUpdateFields(payload)
       IN  IF ~EnsureExists(modifiable_mechanic, "id_modifiable_mechanic", mm_id)
           THEN /\ adm' = AdmError(start, 404, "Modifiable mechanic not found")
                /\ UNCHANGED modifiable_mechanic
           ELSE IF fields = << >>
           THEN /\ adm' = AdmReturn(start, 200, modifiable_mechanic,
                                    "id_modifiable_mechanic", mm_id)
                /\ UNCHANGED modifiable_mechanic
           ELSE \/ /\ modifiable_mechanic' = UpdateTable(modifiable_mechanic,
                                                         "id_modifiable_mechanic", mm_id,
                                                         Stamped(fields, now))
                   /\ adm' = AdmReturn(start, 200, modifiable_mechanic',
                                       "id_modifiable_mechanic", mm_id)
                \/ \* the UPDATE or the commit raises: db.rollback(); 400
                   /\ adm' = AdmError(start, 400, "Error updating modifiable mechanic")
                   /\ UNCHANGED modifiable_mechanic
    /\ admin_updates' = admin_updates + 1
    /\ UNCHANGED << attributes, subattributes, point_dimension, next_point_dimension_id,
                    videogame, next_videogame_id, mmv_columns >>
    /\ UNCHANGED pointsVars
    /\ UNCHANGED authVars
    /\ UNCHANGED sessionVars
    /\ UNCHANGED dbVars
    /\ UNCHANGED reportVars

\* the row of modifiable_mechanic_videogames with the given id, as a set
MmvRows(mmv, columns, mmv_id) ==
    IF mmv_id \in DOMAIN mmv /\ mmv[mmv_id] # None
    THEN {[id_modifiable_mechanic_videogame |-> mmv_id,
           id_videogame                     |-> mmv[mmv_id][1],
           id_modifiable_mechanic           |-> columns[mmv_id].id_modifiable_mechanic,
           options                          |-> columns[mmv_id].options]}
    ELSE {}

\* the SET list admin_update_mod_mech_vg builds from the payload
ModMechVgUpdateFields(payload) ==
    (IF payload.id_videogame # None
     THEN << Assign("id_videogame", payload.id_videogame[1]) >> ELSE << >>)
    \o (IF payload.id_modifiable_mechanic # None
        THEN << Assign("id_modifiable_mechanic", payload.id_modifiable_mechanic[1]) >>
        ELSE << >>)
    \o (IF payload.options # None
        THEN << Assign("options", Some(JsonDumps(payload.options[1]))) >> ELSE << >>)

\* PUT /admin/modifiable-mechanics-videogames/{mmv_id}
admin_update_mod_mech_vg(mmv_id, payload) ==
    /\ adm.pc = "idle"
    /\ LET start == [IdleAdm EXCEPT !.op = "update_mod_mech_vg", !.id = Some(mmv_id),
                                    !.payload = payload]
           fields == ModMechVgUpdateFields(payload)
           rows == MmvRows(modifiable_mechanic_videogames, mmv_columns, mmv_id)
           keep == /\ UNCHANGED << modifiable_mechanic_videogames, mmv_columns >>
       IN  IF rows = {}
           THEN adm' = AdmError(start, 404, "Modifiable mechanic videogame config not found")
                /\ keep
           ELSE IF payload.id_videogame # None
                   /\ ~EnsureExists(videogame, "id_videogame", payload.id_videogame[1])
           THEN adm' = AdmError(start, 404, "Videogame not found") /\ keep
           ELSE IF payload.id_modifiable_mechanic # None
                   /\ ~EnsureExists(modifiable_mechanic, "id_modifiable_mechanic",
                                    payload.id_modifiable_mechanic[1])
           THEN adm' = AdmError(start, 404, "Modifiable mechanic not found") /\ keep
           ELSE IF fields = << >>
           THEN adm' = [start EXCEPT !.pc = "done", !.status = 200,
                                     !.row = Some(CHOOSE x \in rows : TRUE)]
                /\ keep
           ELSE \/ LET new == ApplyFields(CHOOSE x \in rows : TRUE, fields)
                   IN  /\ modifiable_mechanic_videogames' =
                            [modifiable_mechanic_videogames EXCEPT
                               ![mmv_id] = Some(new.id_videogame)]
                       /\ mmv_columns' =
                            [mmv_columns EXCEPT
                               ![mmv_id] = [id_modifiable_mechanic |-> new.id_modifiable_mechanic,
                                            options |-> new.options]]
                       /\ adm' = [start EXCEPT !.pc = "done", !.status = 200,
                                               !.row = Some(new)]
                \/ \* the UPDATE or the commit raises: db.rollback(); 400
                   /\ adm' = AdmError(start, 400,
                                      "Error updating modifiable mechanic videogame config")
                   /\ keep
    /\ admin_updates' = admin_updates + 1
    /\ UNCHANGED << attributes, subattributes, point_dimension, next_point_dimension_id,
                    videogame, next_videogame_id, modifiable_mechanic >>
    /\ UNCHANGED << points_ledger, redemption_event, next_ledger_id, player_videogame,
                    lsg_game_session, req >>
    /\ UNCHANGED authVars
    /\ UNCHANGED sessionVars
    /\ UNCHANGED dbVars
    /\ UNCHANGED reportVars

(* ---------------- admin_points.py: consistency check ------------------- *)

CheckNames == {"players_attribute_mismatch", "invalid_ledger_amounts",
               "negative_dimension_balances", "orphan_redemptions_missing_ledger",
               "redemption_ledger_mismatch"}

\* the view v_points_balance: player x dimension -> signed balance
v_points_balance(ledger) ==
    { [id_players         |-> row.id_players,
       id_point_dimension |-> row.id_point_dimension,
       balance            |-> SumSigned({ x \in ledger :
                                            /\ x.id_players = row.id_players
                                            /\ x.id_point_dimension = row.id_point_dimension })]
      : row \in ledger }

\* FROM v_player_attribute_balance WHERE diff_ledger_minus_snapshot <> 0
PlayersAttributeMismatch(view) == { x \in view : x.diff_ledger_minus_snapshot # 0 }

\* variant: only the negative amounts are selected
InvalidLedgerAmountsNegativeOnly(ledger) == { pl \in ledger : pl.amount < 0 }

\* FROM points_ledger WHERE amount <= 0
InvalidLedgerAmounts(ledger) == { pl \in ledger : pl.amount <= 0 }

\* FROM v_points_balance WHERE balance < 0
NegativeDimensionBalances(view) == { x \in view : x.balance < 0 }

\* FROM redemption_event r LEFT JOIN points_ledger pl ... WHERE pl.id_points_ledger IS NULL
OrphanRedemptionsMissingLedger(events, ledger) ==
    { r \in events : \A pl \in ledger : pl.id_points_ledger # r.id_points_ledger }

\* FROM redemption_event r JOIN points_ledger pl ...
\* WHERE NOT (pl.direction = 'DEBIT' AND pl.source_type = 'REDEMPTION')
RedemptionLedgerMismatch(events, ledger) ==
    { rpl \in events \X ledger :
        /\ rpl[2].id_points_ledger = rpl[1].id_points_ledger
        /\ ~ (rpl[2].direction = "DEBIT" /\ rpl[2].source_type = "REDEMPTION") }

\* the rows each check selects
CheckRows ==
    [players_attribute_mismatch        |-> PlayersAttributeMismatch(v_player_attribute_balance),
     invalid_ledger_amounts            |-> InvalidLedgerAmounts(points_ledger),
     negative_dimension_balances       |-> NegativeDimensionBalances(
                                               v_points_balance(points_ledger)),
     orphan_redemptions_missing_ledger |-> OrphanRedemptionsMissingLedger(redemption_event,
                                                                          points_ledger),
     redemption_ledger_mismatch        |-> RedemptionLedgerMismatch(redemption_event,
                                                                    points_ledger)]

\* _count_and_sample: the COUNT(*) and the number of rows of the sample (LIMIT :limit)
CountAndSample(rows, limit) ==
    LET total == Cardinality(rows)
    IN  << total, IF total > limit THEN limit ELSE total >>

\* the entry of one check: the try branch, or the except branch when its query raises
CheckEntry(rows, limit, raises) ==
    IF raises
    THEN [status |-> "error", count |-> None, sample |-> None]
    ELSE LET cs == CountAndSample(rows, limit)
         IN  [status |-> IF cs[1] = 0 THEN "ok" ELSE "issues",
              count  |-> Some(cs[1]),
              sample |-> Some(cs[2])]

\* global_status: issues_found as soon as one check is issues or error
GlobalStatus(issues) ==
    IF \E k \in DOMAIN issues : issues[k].status \in {"issues", "error"}
    THEN "issues_found" ELSE "ok"

\* limit_issues: int = Query(50, ge=1, le=500)
LimitIssuesValid(limit_issues) == limit_issues >= 1 /\ limit_issues <= 500

\* GET /admin/points/consistency-check
admin_points_consistency_check(limit_issues) ==
    /\ adm.pc = "idle"
    /\ LET start == [IdleAdm EXCEPT !.op = "consistency_check"]
           issues == [k \in CheckNames |-> CheckEntry(CheckRows[k], limit_issues,
                                                      k \in raising)]
       IN  IF ~LimitIssuesValid(limit_issues)
           THEN adm' = AdmError(start, 422, "validation")
           ELSE adm' = [start EXCEPT !.pc = "done", !.status = 200,
                                     !.row = Some([status       |-> GlobalStatus(issues),
                                                   limit_issues |-> limit_issues,
                                                   checks       |-> issues])]
    /\ UNCHANGED << attributes, subattributes, point_dimension, next_point_dimension_id,
                    videogame, next_videogame_id, modifiable_mechanic, mmv_columns,
                    admin_updates >>
    /\ UNCHANGED pointsVars
    /\ UNCHANGED authVars
    /\ UNCHANGED sessionVars
    /\ UNCHANGED dbVars
    /\ UNCHANGED reportVars

\* the response is sent; the next admin request may arrive
adm_respond ==
    /\ adm.pc = "done"
    /\ adm' = IdleAdm
    /\ UNCHANGED << attributes, subattributes, point_dimension, next_point_dimension_id,
                    videogame, next_videogame_id, modifiable_mechanic, mmv_columns,
                    admin_updates >>
    /\ UNCHANGED pointsVars
    /\ UNCHANGED authVars
    /\ UNCHANGED sessionVars
    /\ UNCHANGED dbVars
    /\ UNCHANGED reportVars

(* ---------------- players.py: get_player_timeline ---------------------- *)

\* a reporting request: the route, its inputs, the answer
IdleReport == [pc |-> "idle", route |-> "", params |-> << >>, status |-> 0, body |-> << >>]

\* datetime.min, below every timestamp the database stores
DatetimeMin == 0

\* _add_time_filter: field >= :from_ts AND field <= :to_ts (a NULL field fails either test)
AddTimeFilter(t, from_ts, to_ts) ==
    /\ from_ts # None => (t # None /\ t[1] >= from_ts[1])
    /\ to_ts # None => (t # None /\ t[1] <= to_ts[1])

\* an item of the timeline
TimelineEvent(event_type, occurred_at, id) ==
    [event_type |-> event_type, occurred_at |-> occurred_at, data |-> id]

\* lsg_game_session JOIN player_videogame JOIN videogame WHERE pvg.id_players = :pid
TimelineSessions(sessions, pvg, games, player_id, from_ts, to_ts) ==
    { TimelineEvent("game_session", Some(s.started_at), s.id_lsg_game_session) :
        s \in { x \in sessions :
                  /\ \E a \in pvg : /\ a.id_player_videogame = x.id_player_videogame
                                    /\ a.id_players = player_id
                                    /\ \E g \in games : g.id_videogame = a.id_videogame
                  /\ AddTimeFilter(Some(x.started_at), from_ts, to_ts) } }

\* points_ledger WHERE id_players = :pid
TimelinePoints(ledger, columns, player_id, from_ts, to_ts) ==
    { TimelineEvent("points", columns[pl.id_points_ledger].occurred_at, pl.id_points_ledger) :
        pl \in { x \in ledger :
                   /\ x.id_players = player_id
                   /\ AddTimeFilter(columns[x.id_points_ledger].occurred_at, from_ts, to_ts) } }

\* sensor_ingest_event WHERE id_players = :pid
TimelineSensors(ingest, player_id, from_ts, to_ts) ==
    { TimelineEvent("sensor_ingest", e.occurred_at, e.id_sensor_ingest_event) :
        e \in { x \in ingest : /\ x.id_players = player_id
                               /\ AddTimeFilter(x.occurred_at, from_ts, to_ts) } }

\* redemption_event r JOIN points_ledger pl WHERE pl.id_players = :pid
TimelineRedemptions(events, ledger, columns, player_id, from_ts, to_ts) ==
    { TimelineEvent("redemption", columns[rpl[2].id_points_ledger].occurred_at,
                    rpl[1].id_points_ledger) :
        rpl \in { x \in events \X ledger :
                    /\ x[2].id_points_ledger = x[1].id_points_ledger
                    /\ x[2].id_players = player_id
                    /\ AddTimeFilter(columns[x[2].id_points_ledger].occurred_at,
                                     from_ts, to_ts) } }

\* ORDER BY ... DESC of the database: NULL sorts after every value
SqlDescNotAfter(a, b) == b = None \/ (a # None /\ a[1] >= b[1])

RECURSIVE OrderByDescLimit(_, _)
\* ORDER BY occurred_at DESC LIMIT :limit: the row lists the database may return
\* (rows of equal timestamp come in any order)
OrderByDescLimit(rows, limit) ==
    IF rows = {} \/ limit = 0 THEN { << >> }
    ELSE UNION { { << x >> \o rest : rest \in OrderByDescLimit(rows \ {x}, limit - 1) } :
                 x \in { y \in rows :
                           \A z \in rows : SqlDescNotAfter(y.occurred_at, z.occurred_at) } }

\* variant: a NULL timestamp sorts as the latest instant
TimelineKeyNullLatest(e) == IF e.occurred_at = None THEN 1000 ELSE e.occurred_at[1]

\* key=lambda e: e["occurred_at"] or datetime.min
TimelineKey(e) == IF e.occurred_at = None THEN DatetimeMin ELSE e.occurred_at[1]

RECURSIVE SortedReverse(_)
\* sorted(events, key=..., reverse=True): descending, events of equal key keep their order
SortedReverse(events) ==
    IF events = << >> THEN << >>
    ELSE LET front == SortedReverse(SubSeq(events, 1, Len(events) - 1))
             last  == events[Len(events)]
             k     == Cardinality({ i \in 1..Len(front) :
                                      TimelineKey(front[i]) >= TimelineKey(last) })
         IN  SubSeq(front, 1, k) \o << last >> \o SubSeq(front, k + 1, Len(front))

\* variant: the oldest `limit` events are kept
SliceTail(events, limit) == SubSeq(events, IF Len(events) < limit THEN 1 ELSE Len(events) - limit + 1, Len(events))

\* events_sorted[:limit]
Slice(events, limit) == SubSeq(events, 1, IF Len(events) < limit THEN Len(events) ELSE limit)

\* limit: int = Query(200, ge=10, le=1000)
TimelineLimitValid(limit) == limit >= 10 /\ limit <= 1000

\* GET /players/{player_id}/timeline
get_player_timeline(player_id, from_ts, to_ts, limit) ==
    /\ report.pc = "idle"
    /\ LET start == [IdleReport EXCEPT !.pc = "done", !.route = "timeline",
                                       !.params = [player_id |-> player_id,
                                                   from_ts |-> from_ts, to_ts |-> to_ts,
                                                   limit |-> limit]]
       IN  IF ~TimelineLimitValid(limit)
           THEN report' = [start EXCEPT !.status = 422]
           ELSE \E sessions \in OrderByDescLimit(
                                   TimelineSessions(lsg_game_session, player_videogame,
                                                    videogame, player_id, from_ts, to_ts),
                                   limit),
                   points \in OrderByDescLimit(
                                   TimelinePoints(points_ledger, ledger_columns, player_id,
                                                  from_ts, to_ts), limit),
                   sensor_events \in OrderByDescLimit(
                                   TimelineSensors(sensor_ingest_event, player_id,
                                                   from_ts, to_ts), limit),
                   redemptions \in OrderByDescLimit(
                                   TimelineRedemptions(redemption_event, points_ledger,
                                                       ledger_columns, player_id,
                                                       from_ts, to_ts), limit) :
                  LET events_sorted ==
                        Slice(SortedReverse(sessions \o points \o sensor_events
                                            \o redemptions), limit)
                  IN  report' = [start EXCEPT
                                   !.status = 200,
                                   !.body = [player_id    |-> player_id,
                                             total_events |-> Len(events_sorted),
                                             items        |-> events_sorted]]
    /\ UNCHANGED reportTables
    /\ UNCHANGED pointsVars
    /\ UNCHANGED authVars
    /\ UNCHANGED catalogVars
    /\ UNCHANGED sessionVars
    /\ UNCHANGED dbVars

(* ---------------- research_export.py ----------------------------------- *)

\* hashlib.sha256(base).hexdigest()[:16]: the digest of the bytes, cut to 16 hex digits
Sha256HexDigest16(base) == [sha256 |-> base, hexdigits |-> 16]

\* variant: the digest is taken over the salt alone
PseudonymizePlayerSaltOnly(salt, player_id) == IF player_id = None THEN None ELSE Some(Sha256HexDigest16(salt))

\* _pseudonymize_player: f"{RESEARCH_PSEUDONYM_SALT}:{player_id}"
PseudonymizePlayer(salt, player_id) ==
    IF player_id = None THEN None
    ELSE Some(Sha256HexDigest16(salt \o << ":" >> \o NatToStr(player_id[1])))

\* r.get(key)
DictGet(r, key) == IF key \in DOMAIN r THEN Some(r[key]) ELSE None

\* r[key] = value
DictSet(r, key, value) ==
    [k \in DOMAIN r \cup {key} |-> IF k = key THEN value ELSE r[k]]

\* r.pop(key, None) for each of the keys
DictPop(r, keys) == [k \in DOMAIN r \ keys |-> r[k]]

\* the body of the loop of _apply_pseudonymization
PseudonymizeRow(r, salt, include_raw_ids) ==
    LET with_pseudo == DictSet(r, "player_pseudo",
                               PseudonymizePlayer(salt, DictGet(r, "id_players")))
    IN  IF ~include_raw_ids
        THEN DictPop(with_pseudo, {"id_players", "player_name", "player_email"})
        ELSE with_pseudo

\* _apply_pseudonymization
ApplyPseudonymization(rows, salt, include_raw_ids) ==
    [i \in 1..Len(rows) |-> PseudonymizeRow(rows[i], salt, include_raw_ids)]

\* _build_csv_response: the header comes from the first row
BuildCsvResponse(rows) ==
    [media_type |-> "text/csv",
     fieldnames |-> IF rows = << >> THEN {} ELSE DOMAIN rows[1],
     rows       |-> rows]

\* WHERE column = :param, for a parameter that may be absent
ExportFilter(param, value) == param = None \/ value = param[1]

\* ORDER BY ... of the database, ascending: NULL sorts before every value
SqlAscNotAfter(a, b) == a = None \/ (b # None /\ a[1] <= b[1])

RECURSIVE OrderByAscLimit(_, _, _)
\* ORDER BY col [LIMIT :limit]: the row lists the database may return
\* (rows of equal key come in any order)
OrderByAscLimit(rows, col, limit) ==
    IF rows = {} \/ limit = Some(0) THEN { << >> }
    ELSE UNION { { << x >> \o rest :
                     rest \in OrderByAscLimit(rows \ {x}, col,
                                              IF limit = None THEN None
                                              ELSE Some(limit[1] - 1)) } :
                 x \in { y \in rows : \A z \in rows : SqlAscNotAfter(y[col], z[col]) } }

\* export_points: points_ledger JOIN players
ExportPointsRows(ledger, columns, players, q) ==
    { [id_points_ledger |-> pl.id_points_ledger,
       id_players       |-> pl.id_players,
       player_name      |-> players[pl.id_players].name,
       player_email     |-> players[pl.id_players].email,
       id_videogame     |-> pl.id_videogame,
       direction        |-> pl.direction,
       amount           |-> pl.amount,
       source_type      |-> pl.source_type,
       occurred_at      |-> columns[pl.id_points_ledger].occurred_at] :
        pl \in { x \in ledger :
                   /\ x.id_players \in DOMAIN players
                   /\ AddTimeFilter(columns[x.id_points_ledger].occurred_at, q.from_ts, q.to_ts)
                   /\ ExportFilter(q.player_id, x.id_players)
                   /\ q.videogame_id # None => x.id_videogame = q.videogame_id
                   /\ ExportFilter(q.source_type, x.source_type) } }

\* export_sessions: lsg_game_session JOIN player_videogame JOIN players JOIN videogame
ExportSessionsRows(sessions, pvg, players, games, q) ==
    { [id_lsg_game_session |-> sa[1].id_lsg_game_session,
       id_player_videogame |-> sa[1].id_player_videogame,
       started_at          |-> Some(sa[1].started_at),
       ended_at            |-> sa[1].ended_at,
       id_players          |-> sa[2].id_players,
       player_name         |-> players[sa[2].id_players].name,
       player_email        |-> players[sa[2].id_players].email,
       id_videogame        |-> sa[2].id_videogame] :
        sa \in { x \in sessions \X pvg :
                   /\ x[2].id_player_videogame = x[1].id_player_videogame
                   /\ x[2].id_players \in DOMAIN players
                   /\ \E g \in games : g.id_videogame = x[2].id_videogame
                   /\ AddTimeFilter(Some(x[1].started_at), q.from_ts, q.to_ts)
                   /\ ExportFilter(q.player_id, x[2].id_players)
                   /\ ExportFilter(q.videogame_id, x[2].id_videogame) } }

\* export_sensors: sensor_ingest_event JOIN players LEFT JOIN sensor_endpoint
ExportSensorsRows(ingest, players, q) ==
    { [id_sensor_ingest_event     |-> e.id_sensor_ingest_event,
       id_players                 |-> e.id_players,
       player_name                |-> players[e.id_players].name,
       player_email               |-> players[e.id_players].email,
       id_players_sensor_endpoint |-> e.id_players_sensor_endpoint,
       id_sensor_endpoint         |-> e.id_sensor_endpoint,
       occurred_at                |-> e.occurred_at] :
        e \in { x \in ingest :
                  /\ x.id_players \in DOMAIN players
                  /\ AddTimeFilter(x.occurred_at, q.from_ts, q.to_ts)
                  /\ ExportFilter(q.player_id, x.id_players)
                  /\ ExportFilter(q.sensor_endpoint_id, x.id_sensor_endpoint) } }

\* the query parameters of the three exports
NoExportParams ==
    [from_ts |-> None, to_ts |-> None, player_id |-> None, videogame_id |-> None,
     source_type |-> None, sensor_endpoint_id |-> None, format |-> "json",
     include_raw_ids |-> FALSE, limit |-> None]

\* format: pattern ^(json|csv)$; limit: Optional[int] = Query(None, ge=1, le=100000)
ExportParamsValid(q) ==
    /\ q.format \in {"json", "csv"}
    /\ q.limit # None => (q.limit[1] >= 1 /\ q.limit[1] <= 100000)

\* what the three handlers share after their SELECT is built: fetch, pseudonymize, answer
ExportAnswer(route, q, rows, col) ==
    /\ report.pc = "idle"
    /\ LET start == [IdleReport EXCEPT !.pc = "done", !.route = route, !.params = q]
       IN  IF ~ExportParamsValid(q)
           THEN report' = [start EXCEPT !.status = 422]
           ELSE \E fetched \in OrderByAscLimit(rows, col, q.limit) :
                  LET data == ApplyPseudonymization(fetched, RESEARCH_PSEUDONYM_SALT,
                                                    q.include_raw_ids)
                  IN  report' = [start EXCEPT
                                   !.status = 200,
                                   !.body = IF q.format = "csv" THEN BuildCsvResponse(data)
                                            ELSE [items |-> data, count |-> Len(data)]]
    /\ UNCHANGED reportTables
    /\ UNCHANGED pointsVars
    /\ UNCHANGED authVars
    /\ UNCHANGED catalogVars
    /\ UNCHANGED sessionVars
    /\ UNCHANGED dbVars

\* GET /research/export/points
export_points(q) ==
    ExportAnswer("export_points", q,
                 ExportPointsRows(points_ledger, ledger_columns, players_columns, q),
                 "occurred_at")

\* GET /research/export/sessions
export_sessions(q) ==
    ExportAnswer("export_sessions", q,
                 ExportSessionsRows(lsg_game_session, player_videogame, players_columns,
                                    videogame, q),
                 "started_at")

\* GET /research/export/sensors
export_sensors(q) ==
    ExportAnswer("export_sensors", q,
                 ExportSensorsRows(sensor_ingest_event, players_columns, q), "occurred_at")

(* ---------------- analytics.py: get_sensors_ingest_vs_points ------------ *)

\* the rows of points_ledger the LEFT JOIN attaches to an ingest event:
\* pl.id_sensor_ingest_event = sie.id_sensor_ingest_event AND CREDIT AND SENSOR
IngestLedgerMatches(ledger, columns, e) ==
    { pl \in ledger :
        /\ columns[pl.id_points_ledger].sensor_ingest_event_id = Some(e.id_sensor_ingest_event)
        /\ pl.direction = "CREDIT"
        /\ pl.source_type = "SENSOR" }

\* FROM sensor_ingest_event sie JOIN players p LEFT JOIN points_ledger pl ... WHERE ...:
\* one joined row per matching ledger row, or one with pl NULL when there is none
IngestJoin(ingest, ledger, columns, players, q) ==
    UNION { { [sie |-> e, pl |-> Some(pl)] : pl \in IngestLedgerMatches(ledger, columns, e) }
            \cup (IF IngestLedgerMatches(ledger, columns, e) = {}
                  THEN { [sie |-> e, pl |-> None] } ELSE {}) :
            e \in { x \in ingest :
                      /\ x.id_players \in DOMAIN players
                      /\ ExportFilter(q.player_id, x.id_players)
                      /\ ExportFilter(q.sensor_endpoint_id, x.id_sensor_endpoint)
                      /\ AddTimeFilter(x.occurred_at, q.from_ts, q.to_ts) } }

RECURSIVE SumLedgerAmount(_)
\* SUM(CASE WHEN pl.id_points_ledger IS NOT NULL THEN pl.amount ELSE 0 END)
SumLedgerAmount(joined) ==
    IF joined = {} THEN 0
    ELSE LET j == CHOOSE x \in joined : TRUE
         IN  (IF j.pl # None THEN j.pl[1].amount ELSE 0) + SumLedgerAmount(joined \ {j})

\* a quotient of the response, kept as numerator and denominator
Ratio(num, den) == [num |-> num, den |-> den]

\* one row of the GROUP BY sie.id_players, p.name, sie.id_sensor_endpoint, se.name,
\* with the two rates the handler adds
IngestVsPointsRow(joined, players, player_id, endpoint_id) ==
    LET group         == { j \in joined : /\ j.sie.id_players = player_id
                                          /\ j.sie.id_sensor_endpoint = endpoint_id }
        ingest_events == Cardinality(group)
        points_events == Cardinality({ j \in group : j.pl # None })
        total_points  == SumLedgerAmount(group)
    IN  [id_players           |-> player_id,
         player_name          |-> players[player_id].name,
         id_sensor_endpoint   |-> endpoint_id,
         ingest_events        |-> ingest_events,
         points_events        |-> points_events,
         total_points         |-> total_points,
         conversion_rate      |-> IF ingest_events > 0
                                  THEN Ratio(points_events, ingest_events) ELSE Ratio(0, 1),
         avg_points_per_event |-> IF points_events > 0
                                  THEN Some(Ratio(total_points, points_events)) ELSE None]

\* GET /analytics/sensors/ingest-vs-points
get_sensors_ingest_vs_points(q) ==
    /\ report.pc = "idle"
    /\ LET joined == IngestJoin(sensor_ingest_event, points_ledger, ledger_columns,
                                players_columns, q)
           result == { IngestVsPointsRow(joined, players_columns, j.sie.id_players,
                                         j.sie.id_sensor_endpoint) : j \in joined }
       IN  report' = [IdleReport EXCEPT !.pc = "done", !.route = "ingest_vs_points",
                                        !.params = q, !.status = 200, !.body = result]
    /\ UNCHANGED reportTables
    /\ UNCHANGED pointsVars
    /\ UNCHANGED authVars
    /\ UNCHANGED catalogVars
    /\ UNCHANGED sessionVars
    /\ UNCHANGED dbVars

(* ------------------ sensors.py: get_player_sensors --------------------- *)

\* one row of the SELECT list: the columns of pos and os, and those of pse and se, which
\* are NULL when the LEFT JOIN finds no partner
PlayerSensorRow(pos, os, pse, se) ==
    [id_players_online_sensor  |-> pos.id_players_online_sensor,
     id_players                |-> pos.id_players,
     id_online_sensor          |-> pos.id_online_sensor,
     sensor_name               |-> os.name,
     id_sensor_endpoint        |-> IF se = None THEN None ELSE Some(se[1].id_sensor_endpoint),
     endpoint_name             |-> IF se = None THEN None ELSE Some(se[1].name),
     id_players_sensor_endpoint |->
         IF pse = None THEN None ELSE Some(pse[1].id_players_sensor_endpoint),
     activated                 |-> IF pse = None THEN None ELSE Some(pse[1].activated)]

\* LEFT JOIN: the partners of a row, or the single NULL partner when there is none
LeftJoin(partners) == IF partners = {} THEN {None} ELSE {Some(x) : x \in partners}

\* FROM player_online_sensor pos JOIN online_sensor os ON pos.id_online_sensor =
\* os.id_online_sensor LEFT JOIN players_sensor_endpoint pse ON pse.id_players =
\* pos.id_players LEFT JOIN sensor_endpoint se ON se.id_sensor_endpoint =
\* pse.Id_sensor_endpoint WHERE pos.id_players = :pid
PlayerSensorsJoin(pos_rows, os_rows, pse_rows, se_rows, player_id) ==
    UNION { UNION { UNION { { PlayerSensorRow(pos, os, pse, se) :
                                se \in LeftJoin(IF pse = None THEN {}
                                                ELSE { e \in se_rows :
                                                         e.id_sensor_endpoint =
                                                           pse[1].Id_sensor_endpoint }) } :
                            pse \in LeftJoin({ a \in pse_rows :
                                                 a.id_players = pos.id_players }) } :
                    os \in { o \in os_rows : o.id_online_sensor = pos.id_online_sensor } } :
            pos \in { x \in pos_rows : x.id_players = player_id } }

\* GET /sensors/players/{player_id}
get_player_sensors(player_id) ==
    /\ report.pc = "idle"
    /\ report' = [IdleReport EXCEPT
                    !.pc = "done", !.route = "get_player_sensors",
                    !.params = [player_id |-> player_id], !.status = 200,
                    !.body = PlayerSensorsJoin(player_online_sensor, online_sensor,
                                               players_sensor_endpoint, sensor_endpoint,
                                               player_id)]
    /\ UNCHANGED reportTables
    /\ UNCHANGED pointsVars
    /\ UNCHANGED authVars
    /\ UNCHANGED catalogVars
    /\ UNCHANGED sessionVars
    /\ UNCHANGED dbVars

(* ------------------------------- Next ---------------------------------- *)

Directions == {"CREDIT", "DEBIT"}
OptGames == {None} \cup {Some(g) : g \in Games}

\* requests in flight that may still insert a ledger row
InFlight == { r \in DOMAIN req : req[r].pc = "checked" }

\* a writing request is issued only while an auto-increment id is left for it
RoomFor(ids) == \A i \in next_ledger_id .. (next_ledger_id + Cardinality(InFlight)) : i \in ids

Next ==
    \/ \E r \in Reqs : Free(r) /\
         \E g \in Games, p \in Players, m \in MmvIds, d \in Dimensions, a \in Amounts :
           preview_redeem_mechanic(r, g, p, m, d, a)
    \/ \E r \in Reqs : Free(r) /\ RoomFor(LedgerIds) /\
         \E g \in Games, p \in Players, m \in MmvIds, d \in Dimensions, a \in Amounts,
            t \in Tokens :
           redeem_mechanic(r, g, p, m, d, a, t)
    \/ \E r \in Reqs : redeem_insert_ledger(r)
    \/ \E r \in Reqs : redeem_insert_event(r)
    \/ \E r \in Reqs : redeem_commit(r)
    \/ \E r \in Reqs : Free(r) /\ RoomFor(LedgerIds) /\
         \E p \in Players, d \in Dimensions, dir \in Directions, a \in Amounts,
            vg \in OptGames, t \in Tokens :
           adjust_player_points(r, p, d, dir, a, vg, t)
    \/ \E r \in Reqs : respond(r)

NextAuth ==
    \/ http.pc = "idle" /\
         \E route \in Routes, cred \in Credentials :
           \E player_id \in IF route \in PlayerRoutes THEN {Some(p) : p \in Players} ELSE {None} :
             get_current_user(route, player_id, cred)
    \/ \E route \in Routes : require_roles(route)
    \/ \E route \in Routes : guard_player_access(route)
    \/ http_respond

\* the catalogue the service starts on: attribute 1, its subattribute 1 and point
\* dimension 1 linked to attribute 1
CatalogStartsWith(attribute_ids) ==
    /\ attributes = {[id_attributes |-> a, name |-> "a", description |-> None,
                      data_type |-> None, updated_at |-> 0] : a \in attribute_ids}
    /\ subattributes = {[id_subattributes |-> 1, attributes_id_attributes |-> 1,
                         name |-> "a", description |-> None, updated_at |-> 0]}
    /\ point_dimension = {[id_point_dimension |-> 1, id_attributes |-> Some(1),
                           id_subattributes |-> None, code |-> "c", name |-> "a"]}
    /\ next_point_dimension_id = 2
    /\ videogame = {[id_videogame |-> 1, name |-> << "a" >>],
                    [id_videogame |-> 2, name |-> << "b" >>]}
    /\ next_videogame_id = 3
    /\ modifiable_mechanic = {[id_modifiable_mechanic |-> m, name |-> "a", description |-> None,
                               type |-> None, updated_at |-> 0] : m \in {1, 2}}
    /\ mmv_columns = [m \in MmvIds |-> [id_modifiable_mechanic |-> 1, options |-> None]]
    /\ admin_updates = 0
    /\ adm = IdleAdm

InitCatalogIdle == CatalogStartsWith({1})

\* no session request is being served; the counters follow the rows of the tables
InitSessionIdle ==
    /\ next_player_videogame_id = Cardinality(player_videogame) + 1
    /\ next_session_id = Cardinality(lsg_game_session) + 1
    /\ sess = IdleSess
    /\ sess_peer = IdleSess

\* no reporting request is being served; the columns and tables only they read are empty
InitSensorsIdle ==
    /\ online_sensor = {}
    /\ sensor_endpoint = {}
    /\ player_online_sensor = {}
    /\ players_sensor_endpoint = {}

\* the players carry a name and an email; a salt is configured
InitPlayersIdle ==
    /\ players_columns = [p \in Players |-> [name |-> << "n" >>, email |-> << "e" >>]]
    /\ RESEARCH_PSEUDONYM_SALT = << "c" >>

InitReportIdle ==
    /\ ledger_columns = << >>
    /\ sensor_ingest_event = {}
    /\ InitPlayersIdle
    /\ InitSensorsIdle
    /\ report = IdleReport

\* the attribute view is empty and every query of the consistency check answers
InitDbIdle ==
    /\ v_player_attribute_balance = {}
    /\ raising = {}

\* the point economy: redemption, preview and manual adjustment, one request at a time
Init == InitPoints /\ InitAuthIdle /\ InitCatalogIdle /\ InitSessionIdle /\ InitDbIdle /\ InitReportIdle

Spec == Init /\ [][Next]_vars

\* request slots and ledger ids of the concurrent specification
ConcReqs == {1, 2}
ConcLedgerIds == {1, 2, 3}
ConcAmounts == 1..MaxAmount

InitConc ==
    /\ points_ledger = {}
    /\ redemption_event = {}
    /\ modifiable_mechanic_videogames = [m \in MmvIds |-> IF m \in Games THEN Some(m) ELSE None]
    /\ next_ledger_id = 1
    /\ player_videogame = {}
    /\ lsg_game_session = {}
    /\ req = [r \in ConcReqs |-> IdleReq]
    /\ InitAuthIdle
    /\ InitCatalogIdle
    /\ InitSessionIdle /\ InitDbIdle /\ InitReportIdle

\* two workers serve requests on player 1, game 1, dimension 1 at the same time: CREDIT
\* adjustments and redemptions of positive amounts, their statements interleaved
NextConc ==
    \/ \E r \in ConcReqs : Free(r) /\ RoomFor(ConcLedgerIds) /\
         \E a \in ConcAmounts, t \in Tokens : redeem_mechanic(r, 1, 1, 1, 1, a, t)
    \/ \E r \in ConcReqs : redeem_insert_ledger(r)
    \/ \E r \in ConcReqs : redeem_insert_event(r)
    \/ \E r \in ConcReqs : redeem_commit(r)
    \/ \E r \in ConcReqs : Free(r) /\ RoomFor(ConcLedgerIds) /\
         \E a \in ConcAmounts, t \in Tokens :
           adjust_player_points(r, 1, 1, "CREDIT", a, Some(1), t)
    \/ \E r \in ConcReqs : respond(r)

\* the point economy with two requests in flight
SpecConc == InitConc /\ [][NextConc]_vars

\* the point economy together with the deletion of players
InitLedger == InitPointsIdle /\ InitAuthIdle /\ InitCatalogIdle /\ InitSessionIdle /\ InitDbIdle /\ InitReportIdle

NextLedger ==
    \/ \E r \in Reqs : Free(r) /\ RoomFor(LedgerIds) /\
         \E g \in Games, p \in Players, m \in MmvIds, d \in Dimensions, a \in Amounts,
            t \in Tokens :
           redeem_mechanic(r, g, p, m, d, a, t)
    \/ \E r \in Reqs : redeem_insert_ledger(r)
    \/ \E r \in Reqs : redeem_insert_event(r)
    \/ \E r \in Reqs : redeem_commit(r)
    \/ \E r \in Reqs : Free(r) /\ RoomFor(LedgerIds) /\
         \E p \in Players, d \in Dimensions, dir \in Directions, a \in Amounts,
            vg \in OptGames, t \in Tokens :
           adjust_player_points(r, p, d, dir, a, vg, t)
    \/ \E r \in Reqs : Free(r) /\ \E p \in Players : delete_player(r, p)
    \/ \E r \in Reqs : respond(r)

SpecLedger == InitLedger /\ [][NextLedger]_vars

\* ids and values the admin requests carry
PointDimensionIds == {1, 2, 3}
LinkIds == {None, Some(1), Some(2)}
PointDimensionCreatePayloads ==
    { [NoAdminPayload EXCEPT !.id_attributes = a, !.id_subattributes = b,
                             !.code = Some("c"), !.name = Some("a")] :
        a \in LinkIds, b \in LinkIds }
PointDimensionUpdatePayloads ==
    { [NoAdminPayload EXCEPT !.id_attributes = a, !.id_subattributes = b,
                             !.code = c, !.name = n] :
        a \in LinkIds, b \in LinkIds, c \in {None, Some("d")}, n \in {None, Some("b")} }

\* the point-dimension routes of the /admin router
InitPointDimension == InitPointsIdle /\ InitAuthIdle /\ InitCatalogIdle /\ InitSessionIdle /\ InitDbIdle /\ InitReportIdle

NextPointDimension ==
    \/ adm.pc = "idle" /\ next_point_dimension_id \in PointDimensionIds /\
         \E payload \in PointDimensionCreatePayloads : admin_create_point_dimension(payload)
    \/ adm.pc = "idle" /\
         \E pd_id \in PointDimensionIds, payload \in PointDimensionUpdatePayloads :
           admin_update_point_dimension(pd_id, payload)
    \/ adm_respond

SpecPointDimension == InitPointDimension /\ [][NextPointDimension]_vars

\* ids and names the create_videogame requests carry
VideogameIds == {1, 3, 4}
\* AUTO_INCREMENT values of videogame the model hands out
AutoVideogameIds == {3, 4, 5}
VideogameNames == { << "a" >>, << "A" >>, << "c" >>, << "C" >>, << "c", "b" >>, << "C", "B" >> }

\* the videogame catalogue
InitVideogame == InitPointsIdle /\ InitAuthIdle /\ InitCatalogIdle /\ InitSessionIdle /\ InitDbIdle /\ InitReportIdle

NextVideogame ==
    \/ adm.pc = "idle" /\ next_videogame_id \in AutoVideogameIds /\
         \E id \in {None} \cup {Some(i) : i \in VideogameIds}, name \in VideogameNames :
           create_videogame(VideogameCreateRequest(id, name))
    \/ adm_respond

SpecVideogame == InitVideogame /\ [][NextVideogame]_vars

\* ids and timestamps of the session requests
SessionIds == {1, 2}
PlayerVideogameIds == {1, 2}
Times == {1, 2}
\* session ids an end_session request may name (3 is the id of no session)
EndSessionIds == SessionIds \cup {3}

\* game sessions and the deletion of players, one request at a time
InitSessions == InitPoints /\ InitAuthIdle /\ InitCatalogIdle /\ InitSessionIdle /\ InitDbIdle /\ InitReportIdle

NextSessions ==
    \/ (sess.pc = "idle" /\ \A r \in Reqs : Free(r)) /\
         next_session_id \in SessionIds /\ next_player_videogame_id \in PlayerVideogameIds /\
         \E g \in Games, p \in Players, t \in {None} \cup {Some(1)}, now \in Times :
           start_session(g, p, [NoSessionPayload EXCEPT !.started_at = t], now)
    \/ start_session_insert
    \/ start_session_commit
    \/ (sess.pc = "idle" /\ \A r \in Reqs : Free(r)) /\
         \E g \in Games, p \in Players, sid \in EndSessionIds,
            t \in {None} \cup {Some(1)}, now \in Times :
           end_session(g, p, sid, [NoSessionPayload EXCEPT !.ended_at = t], now)
    \/ sess_respond
    \/ \E r \in Reqs : (Free(r) /\ sess.pc = "idle") /\ \E p \in Players : delete_player(r, p)
    \/ \E r \in Reqs : respond(r)

SpecSessions == InitSessions /\ [][NextSessions]_vars

\* update requests served in one run of the catalogue specification
MaxAdminUpdates == 1
\* ids the update requests address (3 is in no table)
CatalogIds == {1, 3}
CatalogRefs == {None, Some(2), Some(3)}
Texts == {None, Some("b")}
AttributeUpdatePayloads ==
    { [NoAdminPayload EXCEPT !.name = n, !.description = d, !.data_type = t] :
        n \in Texts, d \in Texts, t \in Texts }
SubattributeUpdatePayloads ==
    { [NoAdminPayload EXCEPT !.attribute_id = a, !.name = n, !.description = d] :
        a \in CatalogRefs, n \in Texts, d \in Texts }
ModMechanicUpdatePayloads ==
    { [NoAdminPayload EXCEPT !.name = n, !.description = d, !.type = t] :
        n \in Texts, d \in Texts, t \in Texts }
ModMechVgUpdatePayloads ==
    { [NoAdminPayload EXCEPT !.id_videogame = g, !.id_modifiable_mechanic = m, !.options = o] :
        g \in CatalogRefs, m \in CatalogRefs, o \in {None, Some("o")} }
CatalogPointDimensionPayloads ==
    { [NoAdminPayload EXCEPT !.id_attributes = a, !.id_subattributes = b, !.name = n] :
        a \in {None, Some(2)}, b \in {None, Some(1)}, n \in Texts }

\* the update routes of the five catalogue entities
InitCatalog ==
    InitPointsIdle /\ InitAuthIdle /\ CatalogStartsWith({1, 2}) /\ InitSessionIdle /\ InitDbIdle /\ InitReportIdle

NextCatalog ==
    \/ (adm.pc = "idle" /\ admin_updates < MaxAdminUpdates) /\
         \E id \in CatalogIds, payload \in AttributeUpdatePayloads, now \in Times :
           admin_update_attribute(id, payload, now)
    \/ (adm.pc = "idle" /\ admin_updates < MaxAdminUpdates) /\
         \E id \in CatalogIds, payload \in SubattributeUpdatePayloads, now \in Times :
           admin_update_subattribute(id, payload, now)
    \/ (adm.pc = "idle" /\ admin_updates < MaxAdminUpdates) /\
         \E id \in CatalogIds, payload \in ModMechanicUpdatePayloads, now \in Times :
           admin_update_mod_mechanic(id, payload, now)
    \/ (adm.pc = "idle" /\ admin_updates < MaxAdminUpdates) /\
         \E id \in CatalogIds, payload \in ModMechVgUpdatePayloads :
           admin_update_mod_mech_vg(id, payload)
    \/ adm.pc = "idle" /\
         \E id \in CatalogIds, payload \in CatalogPointDimensionPayloads :
           admin_update_point_dimension(id, payload)
    \/ adm_respond

SpecCatalog == InitCatalog /\ [][NextCatalog]_vars

\* the rows a points_ledger under check may hold under each id
CheckKinds == {<< "DEBIT", "REDEMPTION" >>, << "CREDIT", "ADJUST" >>, << "DEBIT", "ADJUST" >>}
CheckAmounts == {MinAmount, 0, 1}
CheckLedgerRows(id) ==
    { [id_points_ledger |-> id, id_players |-> 1, id_point_dimension |-> 1,
       id_videogame |-> Some(1), direction |-> k[1], amount |-> a, source_type |-> k[2],
       source_ref |-> [prefix |-> k[2], token |-> 1]] : k \in CheckKinds, a \in CheckAmounts }
CheckLedgers ==
    { one \cup two : one \in {{}} \cup {{x} : x \in CheckLedgerRows(1)},
                     two \in {{}} \cup {{x} : x \in CheckLedgerRows(2)} }
CheckEvents ==
    SUBSET { [id_points_ledger |-> i, id_modifiable_mechanic_videogame |-> 1,
              redeemed_points |-> 1] : i \in LedgerIds }
CheckViews ==
    SUBSET { [id_players |-> 1, id_attributes |-> a, diff_ledger_minus_snapshot |-> a - 1]
             : a \in {1, 2} }
LimitIssues == {0, 1, 2}

\* the consistency check over the tables as the database holds them
InitConsistency ==
    /\ points_ledger \in CheckLedgers
    /\ redemption_event \in CheckEvents
    /\ modifiable_mechanic_videogames = [m \in MmvIds |-> IF m \in Games THEN Some(m) ELSE None]
    /\ next_ledger_id = 3
    /\ player_videogame = {}
    /\ lsg_game_session = {}
    /\ req = [r \in Reqs |-> IdleReq]
    /\ InitAuthIdle
    /\ InitCatalogIdle
    /\ InitSessionIdle
    /\ v_player_attribute_balance \in CheckViews
    /\ raising \in SUBSET CheckNames
    /\ InitReportIdle

\* one request over each database state
NextConsistency ==
    adm.pc = "idle" /\ \E limit_issues \in LimitIssues :
                         admin_points_consistency_check(limit_issues)

SpecConsistency == InitConsistency /\ [][NextConsistency]_vars

\* the ledgers a timeline is asked over: no row, two rows, or eleven rows of player 1
\* and one of player 2; timestamps all different, or rows 1 and 2 equal, or row 1 NULL
TimelineLedgerSizes == {0, 2, 12}
TimelinePatterns == {"distinct", "tied", "null"}
TimelineOccurredAt(pattern, i) ==
    IF i = 1 /\ pattern = "null" THEN None
    ELSE IF i = 1 /\ pattern = "tied" THEN Some(2)
    ELSE Some(i)
TimelineLedger(n) ==
    { [id_points_ledger |-> i, id_players |-> IF i = 12 THEN 2 ELSE 1,
       id_point_dimension |-> 1, id_videogame |-> Some(1),
       direction |-> IF i <= 2 THEN "DEBIT" ELSE "CREDIT", amount |-> 1,
       source_type |-> IF i <= 2 THEN "REDEMPTION" ELSE "ADJUST",
       source_ref |-> [prefix |-> IF i <= 2 THEN "REDEMPTION" ELSE "ADJUST", token |-> 1]]
      : i \in 1..n }
TimelineColumns(n, pattern) ==
    [i \in 1..n |-> [occurred_at |-> TimelineOccurredAt(pattern, i),
                     sensor_ingest_event_id |-> None]]
TimelineSessionTables ==
    { {}, {SessionRow(1, 1, 4), SessionRow(2, 2, 20), SessionRow(3, 1, 20)} }
TimelineIngestRow(id, player_id, occurred_at) ==
    [id_sensor_ingest_event |-> id, id_players |-> player_id,
     id_players_sensor_endpoint |-> 1, id_sensor_endpoint |-> 1, occurred_at |-> occurred_at]
TimelineIngestTables ==
    { {}, {TimelineIngestRow(1, 1, None), TimelineIngestRow(2, 1, Some(7)),
           TimelineIngestRow(3, 2, Some(8))} }
TimelineRedemptionTables ==
    { {}, { [id_points_ledger |-> i, id_modifiable_mechanic_videogame |-> 1,
             redeemed_points |-> 1] : i \in {1, 2} } }
TimelineWindows == {None, Some(2)}
TimelineLimits == {9, 10, 11}

\* the timeline over the tables as the database holds them
InitTimeline ==
    /\ \E n \in TimelineLedgerSizes, pattern \in TimelinePatterns :
         /\ points_ledger = TimelineLedger(n)
         /\ ledger_columns = TimelineColumns(n, pattern)
    /\ redemption_event \in TimelineRedemptionTables
    /\ modifiable_mechanic_videogames = [m \in MmvIds |-> IF m \in Games THEN Some(m) ELSE None]
    /\ next_ledger_id = 13
    /\ player_videogame = {PlayerVideogameRow(1, 1, 1, 1), PlayerVideogameRow(2, 2, 1, 1)}
    /\ lsg_game_session \in TimelineSessionTables
    /\ req = [r \in Reqs |-> IdleReq]
    /\ InitAuthIdle
    /\ InitCatalogIdle
    /\ InitSessionIdle
    /\ InitDbIdle
    /\ sensor_ingest_event \in TimelineIngestTables
    /\ InitPlayersIdle
    /\ InitSensorsIdle
    /\ report = IdleReport

\* one request over each database state
NextTimeline ==
    report.pc = "idle" /\
      \E player_id \in Players, from_ts \in TimelineWindows, to_ts \in {None, Some(11)},
         limit \in TimelineLimits :
        get_player_timeline(player_id, from_ts, to_ts, limit)

SpecTimeline == InitTimeline /\ [][NextTimeline]_vars

\* the tables and the parameters of the exports
ExportSalts == { << "c" >>, << "d" >> }
ExportLedger ==
    { [id_points_ledger |-> i, id_players |-> IF i = 3 THEN 2 ELSE 1,
       id_point_dimension |-> 1, id_videogame |-> Some(1), direction |-> "CREDIT",
       amount |-> 1, source_type |-> "ADJUST",
       source_ref |-> [prefix |-> "ADJUST", token |-> 1]] : i \in 1..3 }
ExportColumns ==
    [i \in 1..3 |-> [occurred_at |-> IF i = 1 THEN None ELSE Some(2),
                     sensor_ingest_event_id |-> None]]
ExportParams ==
    { [NoExportParams EXCEPT !.player_id = p, !.format = f, !.include_raw_ids = raw,
                             !.limit = l, !.from_ts = t] :
        p \in {None, Some(2)}, f \in {"json", "csv"}, raw \in BOOLEAN,
        l \in {None, Some(0), Some(1), Some(2)}, t \in {None, Some(2)} }

InitExport ==
    /\ points_ledger = ExportLedger
    /\ ledger_columns = ExportColumns
    /\ redemption_event = {}
    /\ modifiable_mechanic_videogames = [m \in MmvIds |-> IF m \in Games THEN Some(m) ELSE None]
    /\ next_ledger_id = 4
    /\ player_videogame = {PlayerVideogameRow(1, 1, 1, 1), PlayerVideogameRow(2, 2, 1, 1)}
    /\ lsg_game_session = {SessionRow(1, 1, 1), SessionRow(2, 2, 2), SessionRow(3, 1, 2)}
    /\ req = [r \in Reqs |-> IdleReq]
    /\ InitAuthIdle
    /\ InitCatalogIdle
    /\ InitSessionIdle
    /\ InitDbIdle
    /\ sensor_ingest_event = {TimelineIngestRow(1, 1, None), TimelineIngestRow(2, 1, Some(2)),
                              TimelineIngestRow(3, 2, Some(2))}
    /\ players_columns = [p \in Players |-> [name |-> << "n" >>, email |-> << "e" >>]]
    /\ RESEARCH_PSEUDONYM_SALT \in ExportSalts
    /\ InitSensorsIdle
    /\ report = IdleReport

\* one export over each salt
NextExport ==
    \/ report.pc = "idle" /\ \E q \in ExportParams : export_points(q)
    \/ report.pc = "idle" /\ \E q \in ExportParams : export_sessions(q)
    \/ report.pc = "idle" /\ \E q \in ExportParams : export_sensors(q)

SpecExport == InitExport /\ [][NextExport]_vars

\* ingest events of two players on two endpoints, and three ledger rows of player 1
\* that may each credit one of the events
IngestEvents ==
    { TimelineIngestRow(1, 1, Some(1)), TimelineIngestRow(2, 1, Some(2)),
      [TimelineIngestRow(3, 1, Some(2)) EXCEPT !.id_sensor_endpoint = 2],
      TimelineIngestRow(4, 2, None) }
IngestLedgerKinds == { << "CREDIT", "SENSOR" >>, << "DEBIT", "REDEMPTION" >> }
IngestLedger(kind) ==
    { [id_points_ledger |-> i, id_players |-> 1, id_point_dimension |-> 1,
       id_videogame |-> None, direction |-> IF i = 3 THEN kind[1] ELSE "CREDIT",
       amount |-> i, source_type |-> IF i = 3 THEN kind[2] ELSE "SENSOR",
       source_ref |-> [prefix |-> "SENSOR", token |-> 1]] : i \in 1..3 }
IngestRefs == {None, Some(1), Some(2)}
\* the query parameters of the route, all absent
NoIngestParams == [player_id |-> None, sensor_endpoint_id |-> None, from_ts |-> None, to_ts |-> None]
IngestParams ==
    { [NoIngestParams EXCEPT !.player_id = p, !.sensor_endpoint_id = e, !.from_ts = t] :
        p \in {None, Some(1)}, e \in {None, Some(1)}, t \in {None, Some(2)} }

InitIngest ==
    /\ \E kind \in IngestLedgerKinds : points_ledger = IngestLedger(kind)
    /\ ledger_columns \in [1..3 -> [occurred_at : {Some(1)}, sensor_ingest_event_id : IngestRefs]]
    /\ redemption_event = {}
    /\ modifiable_mechanic_videogames = [m \in MmvIds |-> IF m \in Games THEN Some(m) ELSE None]
    /\ next_ledger_id = 4
    /\ player_videogame = {}
    /\ lsg_game_session = {}
    /\ req = [r \in Reqs |-> IdleReq]
    /\ InitAuthIdle
    /\ InitCatalogIdle
    /\ InitSessionIdle
    /\ InitDbIdle
    /\ sensor_ingest_event = IngestEvents
    /\ InitPlayersIdle
    /\ InitSensorsIdle
    /\ report = IdleReport

\* one request over each database state
NextIngest ==
    report.pc = "idle" /\ \E q \in IngestParams : get_sensors_ingest_vs_points(q)

SpecIngest == InitIngest /\ [][NextIngest]_vars

\* the authorization dependencies of a request
InitAuthSpec == InitAuth /\ InitPointsIdle /\ InitCatalogIdle /\ InitSessionIdle /\ InitDbIdle /\ InitReportIdle

SpecAuth == InitAuthSpec /\ [][NextAuth]_vars

(* ======================================================================= *)
(* Properties of the point economy                                         *)
(* ======================================================================= *)

RECURSIVE TotalAmount(_)
TotalAmount(rows) ==
    IF rows = {} THEN 0
    ELSE LET x == CHOOSE y \in rows : TRUE IN x.amount + TotalAmount(rows \ {x})

\* credits minus debits of the rows of one player, one dimension and one game
GameScopedBalance(ledger, p, g, d) ==
    LET mine == { x \in ledger : x.id_players = p /\ x.id_point_dimension = d
                                 /\ x.id_videogame = Some(g) }
    IN  TotalAmount({ x \in mine : x.direction = "CREDIT" })
          - TotalAmount({ x \in mine : x.direction = "DEBIT" })

\* credits minus debits of the rows of one player and one dimension, whatever the game
PlayerDimensionBalance(ledger, p, d) ==
    LET mine == { x \in ledger : x.id_players = p /\ x.id_point_dimension = d }
    IN  TotalAmount({ x \in mine : x.direction = "CREDIT" })
          - TotalAmount({ x \in mine : x.direction = "DEBIT" })

\* slot r takes a new request of operation op in this step
Started(r, op) == req[r].pc = "idle" /\ req'[r].pc # "idle" /\ req'[r].op = op

\* the tables are the same before and after the step
TablesUnchanged ==
    /\ points_ledger' = points_ledger
    /\ redemption_event' = redemption_event
    /\ modifiable_mechanic_videogames' = modifiable_mechanic_videogames
    /\ player_videogame' = player_videogame
    /\ lsg_game_session' = lsg_game_session

\* the configuration mmv_id is a row of game game_id
MmvOwnedBy(mmv_id, game_id) == modifiable_mechanic_videogames[mmv_id] = Some(game_id)

C1_Step(r) ==
    LET q == req'[r]
        a == q.payload.amount[1]
        balance == GameScopedBalance(points_ledger, q.player_id[1], q.game_id[1],
                                     q.payload.point_dimension_id[1])
    IN  ( /\ Started(r, "redeem")
          /\ MmvOwnedBy(q.payload.modifiable_mechanic_videogame_id[1], q.game_id[1])
          /\ balance < a )
        => /\ q.pc = "done"
           /\ q.resp.status = 400
           /\ q.resp.code = "INSUFFICIENT_POINTS"
           /\ q.resp.current_balance = Some(balance)
           /\ q.resp.required_amount = Some(a)
           /\ q.tx_ledger = {} /\ q.tx_event = {}
           /\ TablesUnchanged

C2_RedemptionAtomic ==
    /\ \A e \in redemption_event :
         \E x \in points_ledger : /\ x.id_points_ledger = e.id_points_ledger
                                  /\ x.direction = "DEBIT"
                                  /\ x.source_type = "REDEMPTION"
                                  /\ x.amount = e.redeemed_points
    /\ \A x \in points_ledger :
         x.source_type = "REDEMPTION"
           => \E e \in redemption_event : e.id_points_ledger = x.id_points_ledger
    /\ \A r \in DOMAIN req :
         ( req[r].op = "redeem" /\ req[r].pc = "done" /\ req[r].pl_id # None
           /\ req[r].resp.code # "redeemed" )
         => /\ req[r].resp.status = 400
            /\ \A x \in points_ledger : x.id_points_ledger # req[r].pl_id[1]
            /\ \A e \in redemption_event : e.id_points_ledger # req[r].pl_id[1]
            /\ GameScopedBalance(points_ledger, req[r].player_id[1], req[r].game_id[1],
                                 req[r].payload.point_dimension_id[1])
                 = req[r].current_balance[1]

\* a redemption of a positive balance failed after its ledger INSERT had succeeded
C2_Witness ==
    \E r \in DOMAIN req : /\ req[r].op = "redeem" /\ req[r].pc = "done"
                    /\ req[r].pl_id # None
                    /\ req[r].resp.status = 400
                    /\ req[r].current_balance[1] > 0

\* C3: the balance redeem_mechanic and preview_redeem_mechanic compare with the amount is
\* the signed sum of exactly the ledger rows of that player, dimension and game, so a
\* committed redemption is always covered by the rows of its own game.
C3_GameScopedBalance ==
    \A r \in DOMAIN req :
      ( req[r].op \in {"redeem", "preview"} /\ req[r].current_balance # None )
      => LET now == GameScopedBalance(points_ledger, req[r].player_id[1], req[r].game_id[1],
                                      req[r].payload.point_dimension_id[1])
             committed == req[r].op = "redeem" /\ req[r].resp.code = "redeemed"
         IN  /\ req[r].current_balance[1]
                  = now + (IF committed THEN req[r].payload.amount[1] ELSE 0)
             /\ committed => now >= 0

\* a redemption under one game was refused while the same player and dimension hold
\* enough points credited under another game or under no game
C3_Witness ==
    \E r \in DOMAIN req :
      /\ req[r].op = "redeem" /\ req[r].pc = "done"
      /\ req[r].resp.code = "INSUFFICIENT_POINTS"
      /\ \E x \in points_ledger :
           /\ x.id_players = req[r].player_id[1]
           /\ x.id_point_dimension = req[r].payload.point_dimension_id[1]
           /\ x.id_videogame # req[r].game_id
           /\ x.direction = "CREDIT"
           /\ x.amount >= req[r].payload.amount[1]

\* C5: a preview_redeem_mechanic call, answered 200 or 404, leaves the ledger, the
\* redemption events, the mechanic configurations and the session tables as they were.
C5_PreviewNeverMutates ==
    [][\A r \in DOMAIN req : Started(r, "preview")
          => /\ TablesUnchanged
             /\ next_ledger_id' = next_ledger_id
             /\ req'[r].tx_ledger = {} /\ req'[r].tx_event = {}
             /\ req'[r].resp.status \in {200, 404}]_vars

\* a preview reported a coverable redemption on a database holding ledger rows and sessions
C5_Witness ==
    \E r \in DOMAIN req : /\ req[r].op = "preview" /\ req[r].pc = "done"
                    /\ req[r].resp.can_redeem = Some(TRUE)
                    /\ req[r].resp.required_amount = Some(1)
                    /\ points_ledger # {}
                    /\ lsg_game_session # {}

\* C6: every points_ledger row has amount > 0.
C6_LedgerAmountsPositive == \A x \in points_ledger : x.amount > 0

C7_Step(r) ==
    LET q == req'[r]
    IN  ( /\ Started(r, "redeem") \/ Started(r, "preview")
          /\ ~MmvOwnedBy(q.payload.modifiable_mechanic_videogame_id[1], q.game_id[1]) )
        => /\ q.pc = "done"
           /\ q.resp.status = 404
           /\ q.resp.code = "MODIFIABLE_MECHANIC_VIDEOGAME_NOT_FOUND"
           /\ q.current_balance = None
           /\ q.resp.current_balance = None
           /\ q.tx_ledger = {} /\ q.tx_event = {}
           /\ TablesUnchanged

\* C7: preview and redemption answer 404 MODIFIABLE_MECHANIC_VIDEOGAME_NOT_FOUND whenever
\* the mechanic configuration does not exist or belongs to another game than the path's;
\* no balance has been read by then and nothing is written.
C7_MechanicOwnershipCheck == [][\A r \in DOMAIN req : C7_Step(r)]_vars

\* a redemption named an existing configuration of another game and got the 404
C7_Witness ==
    \E r \in DOMAIN req :
      /\ req[r].op = "redeem" /\ req[r].pc = "done"
      /\ req[r].resp.status = 404
      /\ modifiable_mechanic_videogames[req[r].payload.modifiable_mechanic_videogame_id[1]]
           \notin {None, req[r].game_id}
      /\ points_ledger # {}

C8_Step(r) ==
    LET q == req'[r]
        p == q.player_id[1]
        d == q.payload.point_dimension_id[1]
        a == q.payload.amount[1]
        dir == q.payload.direction[1]
    IN  Started(r, "adjust")
        => /\ q.pc = "done"
           /\ q.resp.code # "INSUFFICIENT_POINTS"
           /\ q.resp.status = 200
                => /\ a > 0
                   /\ \E x \in points_ledger' :
                        /\ x \notin points_ledger
                        /\ points_ledger' = points_ledger \cup {x}
                        /\ x.id_players = p
                        /\ x.id_point_dimension = d
                        /\ x.id_videogame = q.payload.videogame_id
                        /\ x.direction = dir
                        /\ x.amount = a
                        /\ x.source_type = "ADJUST"
                        /\ x.source_ref.prefix = "ADJUST"
                        /\ x.source_ref.token \in Tokens
                        /\ q.resp.source_ref = Some(x.source_ref)
                   /\ PlayerDimensionBalance(points_ledger', p, d)
                        = PlayerDimensionBalance(points_ledger, p, d)
                            + (IF dir = "CREDIT" THEN a ELSE 0 - a)
                   /\ redemption_event' = redemption_event
           /\ q.resp.status # 200 => TablesUnchanged

\* C8: a successful adjust_player_points adds exactly one ledger row with the request's
\* player, dimension, direction and positive amount, source_type ADJUST and a source_ref
\* ADJUST-<token>; the player's balance in the dimension moves by +amount (CREDIT) or
\* -amount (DEBIT); the balance is never consulted (no INSUFFICIENT_POINTS answer).
C8_ManualAdjustment == [][\A r \in DOMAIN req : C8_Step(r)]_vars

\* an accepted DEBIT adjustment larger than the balance: the balance is now negative
C8_Witness ==
    \E r \in DOMAIN req :
      /\ req[r].op = "adjust" /\ req[r].pc = "done"
      /\ req[r].resp.status = 200
      /\ req[r].payload.direction = Some("DEBIT")
      /\ PlayerDimensionBalance(points_ledger, req[r].player_id[1],
                                req[r].payload.point_dimension_id[1]) < 0

\* both redemptions of a pair were committed
BothRedeemed(r1, r2) ==
    /\ r1 # r2
    /\ req[r1].op = "redeem" /\ req[r1].resp.code = "redeemed"
    /\ req[r2].op = "redeem" /\ req[r2].resp.code = "redeemed"

\* C4: two redeem_mechanic requests on the same (player, game, dimension) never both pass
\* the sufficiency check against the same pre-redemption balance: when that balance
\* covers each amount but not their sum at most one DEBIT is committed, and the
\* game-scoped balance does not become negative.
C4_NoConcurrentOverspend ==
    /\ \A r1, r2 \in DOMAIN req :
         ( BothRedeemed(r1, r2) /\ req[r1].current_balance = req[r2].current_balance )
         => req[r1].payload.amount[1] + req[r2].payload.amount[1] <= req[r1].current_balance[1]
    /\ GameScopedBalance(points_ledger, 1, 1, 1) >= 0

(* ======================================================================= *)
(* Properties of the authorization gates                                   *)
(* ======================================================================= *)

\* a request was authenticated and its gate has decided
Decided == http.pc = "done" /\ http.current_user # None

\* what the ownership rule admits: an elevated role, or the player itself
OwnershipAdmits(user, path_player_id) ==
    \/ user.role \in {"admin", "researcher", "teacher"}
    \/ user.role = "player" /\ user.player_id # None /\ user.player_id = path_player_id

\* the routes with {player_id} in the path that declare a role list instead of the gate
RoleListedPlayerRoutes == {"delete_player", "init_player_attributes", "adjust_player_points"}

\* C9 as stated: with open-all mode off, on every route keyed by a path player_id the
\* roles admin, researcher and teacher pass, a player passes only with its own
\* player_id, and every other case is answered 403.
C9_EveryPlayerRouteOwnershipGated ==
    ( Decided /\ ~AUTH_OPEN_ALL /\ http.route \in PlayerRoutes )
    => http.status = (IF OwnershipAdmits(http.current_user[1], http.player_id) THEN 200 ELSE 403)

\* C9 (amended): with open-all mode off, on every route behind the player-ownership gate
\* (the routes keyed by a path player_id other than delete_player, init_player_attributes
\* and adjust_player_points) the roles admin, researcher and teacher pass, a player passes
\* only if its derived player_id is set and equals the path's, and every other case is
\* answered 403.
C9_PlayerOwnershipGate ==
    ( Decided /\ ~AUTH_OPEN_ALL /\ http.route \in PlayerRoutes \ RoleListedPlayerRoutes )
    => http.status = (IF OwnershipAdmits(http.current_user[1], http.player_id) THEN 200 ELSE 403)

\* a player with derived player_id 1 asked for player 2's data and got 403
C9_Witness ==
    /\ Decided /\ ~AUTH_OPEN_ALL
    /\ http.route = "get_player_points_balance"
    /\ http.current_user[1].role = "player"
    /\ http.current_user[1].player_id = Some(1)
    /\ http.player_id = Some(2)
    /\ http.status = 403

\* C10: with open-all mode off a route declaring a list of roles admits an authenticated
\* identity exactly when its role is in the list and answers 403 otherwise; with open-all
\* mode on the role gate and the ownership gate admit every authenticated or synthesized
\* identity.
C10_RoleGate ==
    Decided =>
      /\ ( ~AUTH_OPEN_ALL /\ RouteGate(http.route).kind = "roles" )
           => http.status = (IF http.current_user[1].role \in RouteGate(http.route).roles
                             THEN 200 ELSE 403)
      /\ AUTH_OPEN_ALL => http.status = 200

\* a researcher was refused on an admin-only route
C10_Witness ==
    /\ Decided /\ ~AUTH_OPEN_ALL
    /\ http.route = "delete_player"
    /\ http.current_user[1].role = "researcher"
    /\ http.status = 403

\* C11: with open-all mode off, list_players admits the roles admin, researcher and
\* teacher and answers 403 to the role player.
C11_ListPlayersAccess ==
    ( Decided /\ ~AUTH_OPEN_ALL /\ http.route = "list_players" )
    => http.status = (IF http.current_user[1].role \in {"admin", "researcher", "teacher"}
                      THEN 200 ELSE 403)

\* C12: with open-all mode off, list_sensors and list_sensor_endpoints admit all four
\* roles admin, researcher, teacher and player.
C12_SensorCatalogueAccess ==
    ( Decided /\ ~AUTH_OPEN_ALL /\ http.route \in {"list_sensors", "list_sensor_endpoints"} )
    => http.status = 200

\* a claim the payload carries
Present(v) == v.kind # "absent"

\* get_current_user has run on a verified token with a non-empty sub
Derived ==
    /\ http.pc \in {"authenticated", "done"}
    /\ ~AUTH_DISABLED
    /\ http.credentials = "valid"
    /\ PyStr(http.claims.sub) # << >>

\* C13: for every verified token with a non-empty sub the derived player_id is the
\* integer value of the player_id claim if present, else of the id_players claim if
\* present (401 if that value is not numeric); sub is used only when both claims are
\* absent and sub is numeric; otherwise player_id is unset.
C13_PlayerIdDerivation ==
    Derived =>
      LET c == http.claims
          chosen == IF Present(c.player_id) THEN c.player_id ELSE c.id_players
          sub == PyStr(c.sub)
      IN  IF Present(chosen)
          THEN IF PyInt(chosen).ok
               THEN /\ http.current_user # None
                    /\ http.current_user[1].player_id = Some(PyInt(chosen).n)
               ELSE http.current_user = None /\ http.status = 401
          ELSE /\ http.current_user # None
               /\ http.current_user[1].player_id =
                    (IF IsDigit(sub) THEN Some(DigitsToNat(sub)) ELSE None)

\* the step is the handling of a delete_player request
DeletePlayerStep == \E r \in DOMAIN req : req[r].pc = "idle" /\ req'[r].op = "delete_player"

\* C14 as stated: across any sequence of service operations a committed PointsLedger row
\* is never updated or deleted: every row is still present, with identical fields, in
\* every later state.
C14_LedgerAppendOnly == [][points_ledger \subseteq points_ledger']_vars

\* C14 (amended): across any sequence of service operations other than delete_player a
\* committed PointsLedger row is never updated or deleted; adjust_player_points and
\* redeem_mechanic only insert rows, under ids no earlier row has.
C14_LedgerAppendOnlyButDelete ==
    [][ ~DeletePlayerStep =>
          /\ points_ledger \subseteq points_ledger'
          /\ \A y \in points_ledger' \ points_ledger :
               \A x \in points_ledger : x.id_points_ledger # y.id_points_ledger ]_vars

\* a redemption was committed next to the earlier CREDIT of the same player, game and
\* dimension
C14_Witness ==
    \E x, y \in points_ledger :
      /\ x.source_type = "ADJUST" /\ y.source_type = "REDEMPTION"
      /\ x.id_players = y.id_players /\ x.id_videogame = y.id_videogame
      /\ x.id_point_dimension = y.id_point_dimension
      /\ x.id_points_ledger < y.id_points_ledger

(* ======================================================================= *)
(* Properties of the catalogue                                             *)
(* ======================================================================= *)

\* the row references exactly one of Attribute and Subattribute
ExactlyOneLink(x) == (x.id_attributes = None) # (x.id_subattributes = None)

\* the step serves the admin request op
AdmStarted(op) == adm.pc = "idle" /\ adm'.pc = "done" /\ adm'.op = op

C15_Step ==
    /\ AdmStarted("create_point_dimension")
         => LET pl == adm'.payload
            IN  ( (pl.id_attributes = None) = (pl.id_subattributes = None) )
                  => /\ adm'.status = 422
                     /\ UNCHANGED << point_dimension, next_point_dimension_id >>
    /\ AdmStarted("update_point_dimension")
         => LET pl == adm'.payload
                id == adm'.id[1]
                old == RowsWithId(point_dimension, "id_point_dimension", id)
                new == RowsWithId(point_dimension', "id_point_dimension", id)
            IN  /\ ( pl.id_attributes # None /\ pl.id_subattributes # None )
                      => adm'.status = 422 /\ UNCHANGED point_dimension
                /\ ( adm'.status = 200 /\ pl.id_attributes # None )
                      => \A x \in new : /\ x.id_attributes = pl.id_attributes
                                        /\ x.id_subattributes = None
                /\ ( adm'.status = 200 /\ pl.id_subattributes # None )
                      => \A x \in new : /\ x.id_subattributes = pl.id_subattributes
                                        /\ x.id_attributes = None
                /\ adm'.status = 200 => old # {} /\ new # {}

\* C15: after any sequence of admin creates and updates every PointDimension references
\* exactly one of Attribute or Subattribute; a create with both or with neither, and an
\* update supplying both links, is rejected with nothing written; an update supplying one
\* link sets it and nulls the other.
C15_PointDimensionXorLink ==
    /\ [](\A x \in point_dimension : ExactlyOneLink(x))
    /\ [][C15_Step]_vars

\* an update moved a point dimension from its attribute to a subattribute
C15_Witness ==
    /\ adm.pc = "done" /\ adm.op = "update_point_dimension" /\ adm.status = 200
    /\ adm.payload.id_subattributes = Some(1)
    /\ \E x \in point_dimension :
         /\ x.id_point_dimension = 1
         /\ x.id_attributes = None /\ x.id_subattributes = Some(1)

\* no two videogames have names equal ignoring case
VideogameNamesUnique ==
    \A x, y \in videogame : Lower(x.name) = Lower(y.name) => x = y

\* a collision is answered 409 with nothing inserted
C16_Collision ==
    AdmStarted("create_videogame") =>
      ( (\E x \in videogame : Lower(x.name) = Lower(adm'.payload.name))
          => /\ adm'.status = 409 /\ adm'.detail = "VIDEOGAME_ALREADY_EXISTS"
             /\ UNCHANGED << videogame, next_videogame_id >> )

\* the row an accepted create_videogame inserts and returns
C16_Inserted ==
    LET pl == adm'.payload
    IN  /\ adm'.status = 201
        /\ \E row \in videogame' \ videogame :
             /\ videogame' = videogame \cup {row}
             /\ row.name = pl.name
             /\ pl.id_videogame # None => row.id_videogame = pl.id_videogame[1]
             /\ pl.id_videogame = None => \A x \in videogame : x.id_videogame # row.id_videogame
             /\ adm'.row = Some(row)

SessionsOwnedBy(session_id, player_id, game_id) ==
    { x \in lsg_game_session :
        /\ x.id_lsg_game_session = session_id
        /\ \E a \in player_videogame : /\ a.id_player_videogame = x.id_player_videogame
                                       /\ a.id_players = player_id
                                       /\ a.id_videogame = game_id }

C17_Step ==
    ( sess.pc = "idle" /\ sess'.op = "end_session" ) =>
      LET owned == SessionsOwnedBy(sess'.session_id[1], sess'.player_id[1], sess'.game_id[1])
      IN  /\ sess'.pc = "done"
          /\ owned = {} => /\ sess'.status = 404 /\ sess'.detail = "Session not found"
                           /\ UNCHANGED lsg_game_session
          /\ sess'.status # 200 => UNCHANGED lsg_game_session
          /\ sess'.status = 200 =>
               /\ owned # {}
               /\ \A x \in lsg_game_session \ owned : x \in lsg_game_session'
               /\ \A x \in owned :
                    \E y \in lsg_game_session' :
                      /\ y = [x EXCEPT !.ended_at = y.ended_at]
                      /\ y.ended_at # None
                      /\ sess'.payload.ended_at # None => y.ended_at = sess'.payload.ended_at
               /\ Cardinality(lsg_game_session') = Cardinality(lsg_game_session)
          /\ UNCHANGED player_videogame

StartCommitted == sess.pc = "session_inserted" /\ sess'.pc = "done" /\ sess'.status = 200

C18_Step ==
    /\ StartCommitted =>
         LET p == sess.player_id[1]
             g == sess.game_id[1]
             before == { a \in player_videogame : a.id_players = p /\ a.id_videogame = g }
             after == { a \in player_videogame' : a.id_players = p /\ a.id_videogame = g }
         IN  /\ before # {} => UNCHANGED player_videogame
             /\ before = {} =>
                  \E a \in after :
                    /\ player_videogame' = player_videogame \cup {a}
                    /\ a.lsg_enabled = TRUE
                    /\ a.first_seen \in Times
                    /\ \A b \in player_videogame : b.id_player_videogame # a.id_player_videogame
             /\ Cardinality(after) = 1
             /\ \E x \in lsg_game_session' \ lsg_game_session :
                  /\ lsg_game_session' = lsg_game_session \cup {x}
                  /\ x.ended_at = None
                  /\ \E a \in after : x.id_player_videogame = a.id_player_videogame
                  /\ sess'.id_session = Some(x.id_lsg_game_session)
                  /\ \A y \in lsg_game_session : y.id_lsg_game_session # x.id_lsg_game_session
    /\ ( (sess.op = "start_session" \/ sess'.op = "start_session") /\ ~StartCommitted )
         => UNCHANGED << player_videogame, lsg_game_session >>
    /\ ( sess'.op = "start_session" /\ sess'.pc = "done" /\ sess.pc # "done" )
         => sess'.status \in {200, 400}

\* C18: start_session reuses the PlayerVideogame row of (player, game) when there is one
\* and otherwise creates it (lsg_enabled true, first_seen now), then inserts exactly one
\* new LsgGameSession row with ended_at unset referencing that association; both are
\* committed together, and on any failure neither persists and 400 is returned.
C18_SessionStart == [][C18_Step]_vars

\* a session was started for a player and game that had no association: both rows exist
C18_Witness ==
    /\ sess.pc = "done" /\ sess.op = "start_session" /\ sess.status = 200
    /\ sess.player_id = Some(2) /\ sess.game_id = Some(2)
    /\ \E a \in player_videogame, x \in lsg_game_session :
         /\ a.id_players = 2 /\ a.id_videogame = 2 /\ a.lsg_enabled
         /\ x.id_player_videogame = a.id_player_videogame
         /\ sess.id_session = Some(x.id_lsg_game_session)

(* ---------------- C19: admin partial update ---------------------------- *)

UpdateOps == {"update_attribute", "update_subattribute", "update_point_dimension",
              "update_mod_mechanic", "update_mod_mech_vg"}

\* the rows of modifiable_mechanic_videogames with their columns
MmvTable == UNION { MmvRows(modifiable_mechanic_videogames, mmv_columns, m) : m \in MmvIds }

\* the table each update route writes, and its primary key
CatalogTables ==
    [update_attribute       |-> attributes,
     update_subattribute    |-> subattributes,
     update_point_dimension |-> point_dimension,
     update_mod_mechanic    |-> modifiable_mechanic,
     update_mod_mech_vg     |-> MmvTable]

CatalogKeys ==
    [update_attribute       |-> "id_attributes",
     update_subattribute    |-> "id_subattributes",
     update_point_dimension |-> "id_point_dimension",
     update_mod_mechanic    |-> "id_modifiable_mechanic",
     update_mod_mech_vg     |-> "id_modifiable_mechanic_videogame"]

\* the columns a request body supplies a value for
Supplied(op, payload) ==
    IF op = "update_attribute"
    THEN { c \in {"name", "description", "data_type"} : payload[c] # None }
    ELSE IF op = "update_subattribute"
    THEN { c \in {"name", "description"} : payload[c] # None }
         \cup (IF payload.attribute_id # None THEN {"attributes_id_attributes"} ELSE {})
    ELSE IF op = "update_point_dimension"
    THEN { c \in {"id_attributes", "id_subattributes", "code", "name"} : payload[c] # None }
    ELSE IF op = "update_mod_mechanic"
    THEN { c \in {"name", "description", "type"} : payload[c] # None }
    ELSE { c \in {"id_videogame", "id_modifiable_mechanic", "options"} : payload[c] # None }

\* a column the server may touch although the body does not name it
ServerWritten(op, payload, c, new) ==
    \/ /\ c = "updated_at"
       /\ op \in {"update_attribute", "update_subattribute", "update_mod_mechanic"}
       /\ Supplied(op, payload) # {}
    \/ /\ op = "update_point_dimension"
       /\ \/ c = "id_subattributes" /\ payload.id_attributes # None
          \/ c = "id_attributes" /\ payload.id_subattributes # None
       /\ new[c] = None

\* an update request is served in this step
UpdateServed == adm.pc = "idle" /\ adm'.pc = "done" /\ adm'.op \in UpdateOps

\* only the addressed row changes, and in it only the supplied and the server-written columns
OnlySuppliedChanged ==
    LET op      == adm'.op
        id      == adm'.id[1]
        payload == adm'.payload
        key     == CatalogKeys[op]
        old     == CatalogTables[op]
        new     == CatalogTables'[op]
    IN  /\ \A o \in UpdateOps \ {op} : CatalogTables'[o] = CatalogTables[o]
        /\ { x \in new : x[key] # id } = { x \in old : x[key] # id }
        /\ Cardinality(RowsWithId(new, key, id)) = Cardinality(RowsWithId(old, key, id))
        /\ \A x \in RowsWithId(old, key, id) : \A y \in RowsWithId(new, key, id) :
             \A c \in DOMAIN x :
               \/ y[c] = x[c]
               \/ c \in Supplied(op, payload)
               \/ ServerWritten(op, payload, c, y)

\* a body that supplies nothing writes nothing and answers with the current record
EmptyUpdateIsNoOp ==
    LET op  == adm'.op
        old == RowsWithId(CatalogTables[op], CatalogKeys[op], adm'.id[1])
    IN  (Supplied(op, adm'.payload) = {} /\ old # {})
          => /\ CatalogTables' = CatalogTables
             /\ adm'.status = 200
             /\ adm'.row \in { Some(x) : x \in old }

MissingId ==
    RowsWithId(CatalogTables[adm'.op], CatalogKeys[adm'.op], adm'.id[1]) = {}

\* an update of an id the table does not hold answers 404 and writes nothing
MissingIdIs404 ==
    MissingId => (adm'.status = 404 /\ CatalogTables' = CatalogTables)

\* the same for the bodies that pass request validation
MissingIdIs404WhenValid ==
    (MissingId /\ (adm'.op = "update_point_dimension"
                      => PointDimensionUpdateValid(adm'.payload)))
        => (adm'.status = 404 /\ CatalogTables' = CatalogTables)

\* a body rejected by request validation answers 422 and writes nothing
RejectedBodyWritesNothing ==
    (adm'.op = "update_point_dimension" /\ ~PointDimensionUpdateValid(adm'.payload))
        => (adm'.status = 422 /\ CatalogTables' = CatalogTables)

CheckServed == adm.pc = "done" /\ adm.op = "consistency_check" /\ adm.status = 200

\* the number of PointsLedger rows, redemption events or view rows breaking a check
Violations(k) ==
    CASE k = "players_attribute_mismatch" ->
           Cardinality({ x \in v_player_attribute_balance : x.diff_ledger_minus_snapshot # 0 })
      [] k = "invalid_ledger_amounts" ->
           Cardinality({ x \in points_ledger : x.amount <= 0 })
      [] k = "negative_dimension_balances" ->
           Cardinality({ x \in v_points_balance(points_ledger) : x.balance < 0 })
      [] k = "orphan_redemptions_missing_ledger" ->
           Cardinality({ r \in redemption_event :
                           ~ \E x \in points_ledger : x.id_points_ledger = r.id_points_ledger })
      [] k = "redemption_ledger_mismatch" ->
           Cardinality({ r \in redemption_event :
                           \E x \in points_ledger :
                             /\ x.id_points_ledger = r.id_points_ledger
                             /\ (x.direction # "DEBIT" \/ x.source_type # "REDEMPTION") })

\* C20: the consistency check always reports the five checks; a check whose
\* query raises is reported as error while the others are still evaluated and the
\* request answers 200; a check that ran is ok exactly when its violation count is
\* 0 and issues otherwise; the overall status is issues_found exactly when some
\* check is issues or error; a PointsLedger row with amount <= 0 makes the
\* invalid-ledger-amounts check, when it ran, report issues with count >= 1.
C20_ConsistencyCheckResult ==
    CheckServed =>
      LET body == adm.row[1]
      IN  /\ DOMAIN body.checks = CheckNames
          /\ \A k \in CheckNames :
               /\ (k \in raising) <=> body.checks[k].status = "error"
               /\ k \notin raising =>
                    /\ body.checks[k].count = Some(Violations(k))
                    /\ body.checks[k].status = "ok" <=> Violations(k) = 0
                    /\ body.checks[k].status = "issues" <=> Violations(k) > 0
          /\ body.status \in {"ok", "issues_found"}
          /\ body.status = "issues_found" <=>
               \E k \in CheckNames : body.checks[k].status \in {"issues", "error"}
          /\ ( (\E x \in points_ledger : x.amount <= 0)
               /\ "invalid_ledger_amounts" \notin raising )
               => /\ body.checks["invalid_ledger_amounts"].status = "issues"
                  /\ body.checks["invalid_ledger_amounts"].count \in {Some(1), Some(2)}

\* a check was served over a ledger holding a row of amount 0 while the query of
\* the orphan check raised: one entry is error, the invalid amounts are counted
C20_Witness ==
    /\ CheckServed
    /\ raising = {"orphan_redemptions_missing_ledger"}
    /\ \E x \in points_ledger : x.amount = 0
    /\ \A x \in points_ledger : x.amount >= 0
    /\ adm.row[1].checks["orphan_redemptions_missing_ledger"].status = "error"
    /\ adm.row[1].checks["invalid_ledger_amounts"].status = "issues"
    /\ adm.row[1].checks["players_attribute_mismatch"].status = "ok"
    /\ adm.row[1].status = "issues_found"

(* ---------------- C21, C27: player timeline ----------------------------- *)

TimelineServed == report.pc = "done" /\ report.route = "timeline" /\ report.status = 200

\* a is not earlier than b, a NULL timestamp being the earliest instant
NotEarlier(a, b) == b = None \/ (a # None /\ a[1] >= b[1])

\* C21: the timeline is sorted by occurrence time, latest first, whatever the
\* event types, a NULL timestamp sorting as the earliest instant, and has at most
\* `limit` items.
C21_TimelineOrdered ==
    TimelineServed =>
      LET items == report.body.items
      IN  /\ Len(items) <= report.params.limit
          /\ report.body.total_events = Len(items)
          /\ \A i \in 1..Len(items) : \A j \in 1..Len(items) :
               i < j => NotEarlier(items[i].occurred_at, items[j].occurred_at)

\* a timeline cut at its limit that mixes three event types and ends with older
\* events than it begins with
C21_Witness ==
    /\ TimelineServed
    /\ Len(report.body.items) = report.params.limit
    /\ Cardinality({ report.body.items[i].event_type :
                       i \in 1..Len(report.body.items) }) >= 3
    /\ report.body.items[1].occurred_at # report.body.items[Len(report.body.items)].occurred_at

\* the four complete result sets of the request, before any LIMIT
TimelineUncapped ==
    LET q == report.params
    IN  TimelineSessions(lsg_game_session, player_videogame, videogame,
                         q.player_id, q.from_ts, q.to_ts)
        \cup TimelinePoints(points_ledger, ledger_columns, q.player_id, q.from_ts, q.to_ts)
        \cup TimelineSensors(sensor_ingest_event, q.player_id, q.from_ts, q.to_ts)
        \cup TimelineRedemptions(redemption_event, points_ledger, ledger_columns,
                                 q.player_id, q.from_ts, q.to_ts)

\* C27: the timeline is the `limit` most recent events of the union of the four
\* uncapped result sets, up to the choice among events of equal timestamp.
C27_CapsLoseNothing ==
    TimelineServed =>
      LET items == report.body.items
          shown == { items[i] : i \in 1..Len(items) }
          all   == TimelineUncapped
      IN  /\ shown \subseteq all
          /\ Cardinality(shown) = Len(items)
          /\ Len(items) = IF Cardinality(all) < report.params.limit
                          THEN Cardinality(all) ELSE report.params.limit
          /\ \A e \in all \ shown : \A x \in shown :
               NotEarlier(x.occurred_at, e.occurred_at)

\* the ledger alone has more rows than the limit, so its query was capped, and the
\* timeline still shows events of the other sources
C27_Witness ==
    /\ TimelineServed
    /\ Cardinality(TimelinePoints(points_ledger, ledger_columns, report.params.player_id,
                                  report.params.from_ts, report.params.to_ts))
         > report.params.limit
    /\ Len(report.body.items) = report.params.limit
    /\ \E i \in 1..Len(report.body.items) : report.body.items[i].event_type = "game_session"
    /\ \E i \in 1..Len(report.body.items) : report.body.items[i].event_type = "points"

(* ---------------- C22: export pseudonymization -------------------------- *)

ExportServed ==
    /\ report.pc = "done" /\ report.status = 200
    /\ report.route \in {"export_points", "export_sessions", "export_sensors"}

\* the rows an export emitted, in either format
Emitted ==
    IF report.params.format = "csv" THEN report.body.rows ELSE report.body.items

\* the player a row was read for, found through the key the row keeps
PlayerOfRow(r) ==
    IF report.route = "export_points"
    THEN (CHOOSE x \in points_ledger : x.id_points_ledger = r.id_points_ledger).id_players
    ELSE IF report.route = "export_sessions"
    THEN (CHOOSE a \in player_videogame :
            a.id_player_videogame = r.id_player_videogame).id_players
    ELSE (CHOOSE e \in sensor_ingest_event :
            e.id_sensor_ingest_event = r.id_sensor_ingest_event).id_players

\* the pseudonym of a player under a salt, the same in every row and every export
PseudoOf(salt, player_id) ==
    Some([sha256 |-> salt \o << ":" >> \o NatToStr(player_id), hexdigits |-> 16])

RawIdFields == {"id_players", "player_name", "player_email"}

\* C22: in the three exports every emitted row carries player_pseudo, a value
\* fixed by the salt and the row's player id; without include_raw_ids no emitted
\* row has id_players, player_name or player_email, and with it they are kept.
C22_ExportPseudonymized ==
    ExportServed =>
      \A i \in 1..Len(Emitted) :
        LET r == Emitted[i]
        IN  /\ "player_pseudo" \in DOMAIN r
            /\ r.player_pseudo = PseudoOf(RESEARCH_PSEUDONYM_SALT, PlayerOfRow(r))
            /\ ~report.params.include_raw_ids => DOMAIN r \cap RawIdFields = {}
            /\ report.params.include_raw_ids =>
                 /\ RawIdFields \subseteq DOMAIN r
                 /\ r.id_players = PlayerOfRow(r)
                 /\ r.player_name = players_columns[PlayerOfRow(r)].name
                 /\ r.player_email = players_columns[PlayerOfRow(r)].email

\* a default export of two rows of two different players: two different
\* pseudonyms and no raw field
C22_Witness ==
    /\ ExportServed
    /\ ~report.params.include_raw_ids
    /\ Len(Emitted) >= 2
    /\ \E i, j \in 1..Len(Emitted) :
         /\ PlayerOfRow(Emitted[i]) # PlayerOfRow(Emitted[j])
         /\ Emitted[i].player_pseudo # Emitted[j].player_pseudo
         /\ DOMAIN Emitted[i] \cap RawIdFields = {}

(* ---------------- C23: sensor-to-points conversion ---------------------- *)

\* the ingest events of a (player, endpoint) group within the filters of the request
GroupEvents(player_id, endpoint_id) ==
    { e \in sensor_ingest_event :
        /\ e.id_players = player_id
        /\ e.id_sensor_endpoint = endpoint_id
        /\ report.params.player_id \in {None, Some(e.id_players)}
        /\ report.params.sensor_endpoint_id \in {None, Some(e.id_sensor_endpoint)}
        /\ report.params.from_ts # None =>
             (e.occurred_at # None /\ e.occurred_at[1] >= report.params.from_ts[1])
        /\ report.params.to_ts # None =>
             (e.occurred_at # None /\ e.occurred_at[1] <= report.params.to_ts[1]) }

\* the SENSOR/CREDIT ledger rows that name one of the events
GroupCredits(events) ==
    { pl \in points_ledger :
        /\ pl.source_type = "SENSOR" /\ pl.direction = "CREDIT"
        /\ \E e \in events :
             ledger_columns[pl.id_points_ledger].sensor_ingest_event_id
               = Some(e.id_sensor_ingest_event) }

\* C23: for every (player, sensor endpoint) group of the answer, ingest_events is
\* the number of ingest events of the group within the filters, and points_events
\* and total_points are the count and the summed amount of the SENSOR/CREDIT
\* ledger rows matched to those events, also when one event is named by two or
\* more ledger rows.
C23_ConversionCounts ==
    (report.pc = "done" /\ report.route = "ingest_vs_points") =>
      \A r \in report.body :
        LET events == GroupEvents(r.id_players, r.id_sensor_endpoint)
        IN  /\ r.ingest_events = Cardinality(events)
            /\ r.points_events = Cardinality(GroupCredits(events))
            /\ r.total_points = TotalAmount(GroupCredits(events))

(* ---------------- C24: sequential redemption ---------------------------- *)

\* the balance of the (player, game, dimension) a request slot addresses, in a ledger
SlotBalance(ledger, q) ==
    GameScopedBalance(ledger, q.player_id[1], q.game_id[1], q.payload.point_dimension_id[1])

\* the step in which the redemption of slot r commits and answers "redeemed"
C24_Step(r) ==
    ( /\ req[r].op = "redeem" /\ req[r].pc # "done"
      /\ req'[r].pc = "done" /\ req'[r].resp.code = "redeemed" )
    => /\ SlotBalance(points_ledger', req'[r])
            = SlotBalance(points_ledger, req[r]) - req[r].payload.amount[1]
       /\ SlotBalance(points_ledger', req'[r]) >= 0
       /\ req'[r].resp.resulting_balance = Some(SlotBalance(points_ledger', req'[r]))

\* C24: with redeem_mechanic requests served one at a time, a successful
\* redemption leaves the game-scoped balance at the previous balance minus the
\* amount, which is at least 0, and returns as resulting_balance the balance the
\* ledger gives after the commit.
C24_SequentialRedemption == [][\A r \in DOMAIN req : C24_Step(r)]_vars

\* a redemption of 1 point out of a balance of 2 was committed: the ledger gives 1
C24_Witness ==
    \E r \in DOMAIN req :
      /\ req[r].op = "redeem" /\ req[r].pc = "done" /\ req[r].resp.code = "redeemed"
      /\ req[r].resp.current_balance = Some(2)
      /\ req[r].payload.amount = Some(1)
      /\ req[r].resp.resulting_balance = Some(1)
      /\ SlotBalance(points_ledger, req[r]) = 1

(* ------------------- preview against redemption ------------------------ *)

\* slot 1 previews, slot 2 then redeems with the inputs of the preview
PreviewSlot == CHOOSE r \in ConcReqs : \A o \in ConcReqs : r <= o
RedeemSlot == CHOOSE r \in ConcReqs : \A o \in ConcReqs : r >= o

\* the preview of slot 1 has answered and nothing has been written since
PreviewAnswered == req[PreviewSlot].op = "preview" /\ req[PreviewSlot].pc = "done"

\* the inputs a redemption shares with the preview: path parameters and body
SameInputs(p, q) ==
    /\ p.game_id = q.game_id
    /\ p.player_id = q.player_id
    /\ p.payload = q.payload

InitAgree ==
    /\ points_ledger = {}
    /\ redemption_event = {}
    /\ modifiable_mechanic_videogames = [m \in MmvIds |-> IF m \in Games THEN Some(m) ELSE None]
    /\ next_ledger_id = 1
    /\ player_videogame = {}
    /\ lsg_game_session = {}
    /\ req = [r \in ConcReqs |-> IdleReq]
    /\ InitAuthIdle
    /\ InitCatalogIdle
    /\ InitSessionIdle /\ InitDbIdle /\ InitReportIdle

\* adjustments build a balance; a preview is answered; the redemption of the same request
\* is then executed once on the state the preview read, and both answers are collected
NextAgree ==
    \/ /\ \A r \in ConcReqs : Free(r)
       /\ RoomFor(LedgerIds)
       /\ \E p \in Players, d \in Dimensions, dir \in Directions, a \in ConcAmounts,
             vg \in OptGames, t \in Tokens :
            adjust_player_points(PreviewSlot, p, d, dir, a, vg, t)
    \/ /\ \A r \in ConcReqs : Free(r)
       /\ \E g \in Games, p \in Players, m \in MmvIds, d \in Dimensions, a \in Amounts :
            preview_redeem_mechanic(PreviewSlot, g, p, m, d, a)
    \/ /\ PreviewAnswered
       /\ RoomFor(LedgerIds)
       /\ \E t \in Tokens :
            redeem_mechanic(RedeemSlot, req[PreviewSlot].game_id[1],
                            req[PreviewSlot].player_id[1],
                            req[PreviewSlot].payload.modifiable_mechanic_videogame_id[1],
                            req[PreviewSlot].payload.point_dimension_id[1],
                            req[PreviewSlot].payload.amount[1], t)
    \/ redeem_insert_ledger(RedeemSlot)
    \/ redeem_insert_event(RedeemSlot)
    \/ redeem_commit(RedeemSlot)
    \/ /\ PreviewAnswered => req[RedeemSlot].pc = "done"
       /\ respond(PreviewSlot)
    \/ /\ ~PreviewAnswered
       /\ respond(RedeemSlot)

\* a preview followed by the redemption of the same request
SpecAgree == InitAgree /\ [][NextAgree]_vars

\* the redemption of slot 2 has been started on the state the preview of slot 1 read
Compared ==
    /\ PreviewAnswered
    /\ req[RedeemSlot].op = "redeem"
    /\ req[RedeemSlot].pc # "idle"
    /\ SameInputs(req[PreviewSlot], req[RedeemSlot])

\* the redemption got past _assert_mmv_exists_for_game
PassedOwnership(q) == ~(q.pc = "done" /\ q.resp = MmvNotFound)

\* the redemption got past the ownership check and the INSUFFICIENT_POINTS check
PassedChecks(q) == PassedOwnership(q) /\ ~(q.pc = "done" /\ q.resp.code = "INSUFFICIENT_POINTS")

\* C25: a preview reports can_redeem = true exactly when the redemption of the same request
\* on the same state passes the ownership and the sufficiency check; it answers the 404
\* exactly when the redemption does; with can_redeem true its resulting_balance is the
\* resulting_balance the redemption returns, with can_redeem false it is the balance the
\* redemption read
C25_PreviewAgreesWithRedeem ==
    Compared =>
      LET p == req[PreviewSlot]
          q == req[RedeemSlot]
      IN  /\ (p.resp.can_redeem = Some(TRUE)) <=> PassedChecks(q)
          /\ (p.resp = MmvNotFound) <=> ~PassedOwnership(q)
          /\ q.resp.code = "redeemed" => p.resp.resulting_balance = q.resp.resulting_balance
          /\ p.resp.can_redeem = Some(FALSE) =>
               /\ p.resp.resulting_balance = q.current_balance
               /\ p.resp.resulting_balance =
                    Some(GetPlayerGameDimensionBalance(points_ledger, p.player_id[1],
                                                       p.game_id[1],
                                                       p.payload.point_dimension_id[1]))

\* a redemption of the whole balance was previewed as coverable and then went through
C25_Witness ==
    /\ Compared
    /\ req[PreviewSlot].resp.can_redeem = Some(TRUE)
    /\ req[PreviewSlot].resp.current_balance = req[PreviewSlot].resp.required_amount
    /\ req[RedeemSlot].resp.code = "redeemed"
    /\ req[RedeemSlot].resp.resulting_balance = Some(0)
    /\ req[PreviewSlot].resp.required_amount = Some(1)

(* ------------------ session starts served concurrently ----------------- *)

InitStartConc ==
    /\ InitPointsIdle
    /\ InitAuthIdle
    /\ InitCatalogIdle
    /\ InitSessionIdle /\ InitDbIdle /\ InitReportIdle

\* two workers serve start_session requests at the same time, their statements interleaved;
\* each request runs in its own transaction and reads the committed rows
NextStartConc ==
    \/ \E w \in SessWorkers :
         /\ next_session_id \in SessionIds
         /\ next_player_videogame_id \in PlayerVideogameIds
         /\ \E g \in Games, p \in Players, now \in Times :
              start_session_by(w, g, p, NoSessionPayload, now)
    \/ \E w \in SessWorkers : start_session_insert_by(w)
    \/ \E w \in SessWorkers : start_session_commit_by(w)
    \/ \E w \in SessWorkers : sess_respond_by(w)

SpecStartConc == InitStartConc /\ [][NextStartConc]_vars

\* C26: at most one association exists per (player, game), whatever the number of
\* start_session requests on the pair and however their lookups and inserts interleave
C26_OneAssociationPerPair ==
    \A x, y \in player_videogame :
      (x.id_players = y.id_players /\ x.id_videogame = y.id_videogame) => x = y

(* ------------------ authentication before authorization ---------------- *)

\* a request has arrived and get_current_user has run on it
Arrived == http.pc # "idle"

\* the request carries no bearer credential, a token that does not verify, or a verified
\* token whose sub is missing or empty
Unauthenticated(h) ==
    \/ h.credentials \in {"none", "invalid"}
    \/ h.claims.sub \in {Absent, StrVal(<< >>)}

\* C28: with auth-disabled off a request to a gated route without credential, with an
\* unverifiable token or with a token lacking a non-empty sub is answered 401, whatever
\* the open-all switch, and is neither answered 403 nor served; with auth-disabled on every
\* request is served as the identity dev-admin, role admin, no player id, whatever it carries
C28_AuthenticationFirst ==
    Arrived =>
      /\ ( ~AUTH_DISABLED /\ Unauthenticated(http) )
           => /\ http.pc = "done"
              /\ http.status = 401
              /\ http.current_user = None
      /\ AUTH_DISABLED
           => /\ http.current_user # None
              /\ http.current_user[1].sub = << "d", "e", "v", "-", "a", "d", "m", "i", "n" >>
              /\ http.current_user[1].role = "admin"
              /\ http.current_user[1].player_id = None
              /\ http.pc = "done" => http.status = 200

\* in open-all mode a request without an Authorization header was answered 401 on a route
\* open to every role
C28_Witness ==
    /\ ~AUTH_DISABLED /\ AUTH_OPEN_ALL
    /\ http.pc = "done"
    /\ http.route = "list_videogames"
    /\ http.credentials = "none"
    /\ http.status = 401

(* ------------- redemptions and mechanic-configuration updates ---------- *)

InitRedeemAdmin ==
    /\ InitPointsIdle
    /\ InitAuthIdle
    /\ InitCatalogIdle
    /\ InitSessionIdle /\ InitDbIdle /\ InitReportIdle

\* credits, redemptions and updates of the mechanic configurations, one request at a time
NextRedeemAdmin ==
    \/ \E r \in Reqs : (Free(r) /\ adm.pc = "idle") /\ RoomFor(LedgerIds) /\
         \E p \in Players, a \in ConcAmounts, g \in Games, t \in Tokens :
           adjust_player_points(r, p, 1, "CREDIT", a, Some(g), t)
    \/ \E r \in Reqs : (Free(r) /\ adm.pc = "idle") /\ RoomFor(LedgerIds) /\
         \E g \in Games, p \in Players, m \in MmvIds, d \in Dimensions, a \in ConcAmounts,
            t \in Tokens :
           redeem_mechanic(r, g, p, m, d, a, t)
    \/ \E r \in Reqs : redeem_insert_ledger(r)
    \/ \E r \in Reqs : redeem_insert_event(r)
    \/ \E r \in Reqs : redeem_commit(r)
    \/ \E r \in Reqs : respond(r)
    \/ (adm.pc = "idle" /\ admin_updates < MaxAdminUpdates /\ \A r \in Reqs : Free(r)) /\
         \E id \in CatalogIds, payload \in ModMechVgUpdatePayloads :
           admin_update_mod_mech_vg(id, payload)
    \/ adm_respond

SpecRedeemAdmin == InitRedeemAdmin /\ [][NextRedeemAdmin]_vars

\* the ledger rows a redemption event points to
LedgerRowsOf(e) == { row \in points_ledger : row.id_points_ledger = e.id_points_ledger }

\* C29: the mechanic configuration of every redemption event belongs to the game of the
\* event's ledger DEBIT row, also after admin_update_mod_mech_vg has changed the
\* id_videogame of a configuration that has redemptions
C29_RedemptionTiedToGame ==
    \A e \in redemption_event :
      \A row \in LedgerRowsOf(e) :
        modifiable_mechanic_videogames[e.id_modifiable_mechanic_videogame] = row.id_videogame

(* ----------------------- per-player sensor view ------------------------ *)

\* the sensor catalogue: two online sensors with one endpoint each
SensorCatalogue ==
    {[id_online_sensor |-> 1, name |-> "s"], [id_online_sensor |-> 2, name |-> "t"]}
EndpointCatalogue ==
    {[id_sensor_endpoint |-> 1, sensor_endpoint_id_online_sensor |-> 1, name |-> "e"],
     [id_sensor_endpoint |-> 2, sensor_endpoint_id_online_sensor |-> 2, name |-> "f"]}

\* authorizations the players may hold: player 1 for both sensors, player 2 for sensor 1
Authorizations ==
    {[id_players_online_sensor |-> 1, id_players |-> 1, id_online_sensor |-> 1],
     [id_players_online_sensor |-> 2, id_players |-> 1, id_online_sensor |-> 2],
     [id_players_online_sensor |-> 3, id_players |-> 2, id_online_sensor |-> 1]}

\* endpoint activations the players may hold: player 1 has endpoint 1 activated and
\* endpoint 2 switched off, player 2 has endpoint 1 activated
Activations ==
    {[id_players_sensor_endpoint |-> 1, id_players |-> 1, Id_sensor_endpoint |-> 1,
      activated |-> TRUE],
     [id_players_sensor_endpoint |-> 2, id_players |-> 1, Id_sensor_endpoint |-> 2,
      activated |-> FALSE],
     [id_players_sensor_endpoint |-> 3, id_players |-> 2, Id_sensor_endpoint |-> 1,
      activated |-> TRUE]}

InitSensors ==
    /\ InitPointsIdle
    /\ InitAuthIdle
    /\ InitCatalogIdle
    /\ InitSessionIdle
    /\ InitDbIdle
    /\ ledger_columns = << >>
    /\ sensor_ingest_event = {}
    /\ InitPlayersIdle
    /\ online_sensor = SensorCatalogue
    /\ sensor_endpoint = EndpointCatalogue
    /\ player_online_sensor \in SUBSET Authorizations
    /\ players_sensor_endpoint \in SUBSET Activations
    /\ report = IdleReport

\* one request over each database state
NextSensors ==
    report.pc = "idle" /\ \E p \in Players : get_player_sensors(p)

SpecSensors == InitSensors /\ [][NextSensors]_vars

SensorsServed == report.pc = "done" /\ report.route = "get_player_sensors"

\* the online sensors a sensor endpoint belongs to
SensorsOfEndpoint(endpoint_id) ==
    { e.sensor_endpoint_id_online_sensor :
        e \in { x \in sensor_endpoint : x.id_sensor_endpoint = endpoint_id } }

\* C30: every returned row that carries an endpoint shows the online sensor the endpoint
\* belongs to, and each activated endpoint of the player is on as many rows as the player
\* has authorizations for the endpoint's own sensor
C30_EndpointsWithOwnSensor ==
    SensorsServed =>
      /\ \A r \in report.body :
           r.id_sensor_endpoint # None
             => r.id_online_sensor \in SensorsOfEndpoint(r.id_sensor_endpoint[1])
      /\ \A a \in players_sensor_endpoint :
           ( a.id_players = report.params.player_id /\ a.activated )
             => Cardinality({ r \in report.body :
                                r.id_players_sensor_endpoint =
                                  Some(a.id_players_sensor_endpoint) })
                = Cardinality({ x \in player_online_sensor :
                                  /\ x.id_players = a.id_players
                                  /\ x.id_online_sensor \in
                                       SensorsOfEndpoint(a.Id_sensor_endpoint) })

====
